---- MODULE Spec2Model ----
(***************************************************************************)
(* A model of the qt assertion library: the checker protocol, the built-in *)
(* checkers, the negation and quantifier combinators, and the Assert/Check *)
(* entry points that hand a failure report to the test runner.             *)
(*                                                                         *)
(* Encoding.                                                               *)
(*   - A text is a sequence of string pieces; concatenation is \o.         *)
(*   - An error value is a record [kind, msg]; kind "nil" is the nil error.*)
(*   - A Go value is a record [typ, v, ...] with a string payload.         *)
(*   - A checker is a record whose field kind names its dynamic type.      *)
(*   - Running Check yields a record [err, notes, panicking, pval]: the    *)
(*     returned error, the notes passed to the note callback in emission   *)
(*     order, and whether a panic left the method unrecovered.             *)
(***************************************************************************)
EXTENDS Naturals, Sequences, FiniteSets, TLC

VARIABLES
    inv,    \* the invocation made by the current subtest
    tt,     \* the testingT of the current subtest: errorBuf and fatalBuf
    ok,     \* the boolean returned by Assert or Check
    pc,     \* "idle", "returned", or "panicked" when a panic left the entry point
    calls,  \* how often the entry point called each method of the checker
    verbose, \* the process-wide verbosity flag (testing.Verbose)
    mem,    \* the variables a test patches: the value each one holds
    tb,     \* the test using Patch: its phase and its registered cleanups
    hist,   \* history: the last operation on mem, and what each variable
            \* held before it was first patched
    sr,     \* a call of qtsuite.Run: the suite values, the method it is at
    runs    \* invocations of the entry points running side by side

vars == <<inv, tt, ok, pc, calls, verbose, mem, tb, hist, sr, runs>>

\* The state of the assertions, and the state around them.
checkVars == <<inv, tt, ok, pc, calls, verbose>>

patchVars == <<mem, tb, hist>>

envVars == <<mem, tb, hist, sr, runs>>

----------------------------------------------------------------------------
(* Bounds of the model. *)

MaxNotes == 2
MaxStrLen == 2
MaxPatLen == 3
MaxElems == 2

MaxComments == 2

MaxPatches == 3

\* The number of invocations of the entry points running side by side.
MaxRuns == 2

----------------------------------------------------------------------------
(* Sequences over a set, up to a length. *)

SeqsUpTo(S, n) == UNION {[1..k -> S] : k \in 0..n}

----------------------------------------------------------------------------
(* Errors. *)

Nil == [kind |-> "nil", msg |-> <<>>]

errors_New(msg) == [kind |-> "error", msg |-> msg]

BadCheckf(msg) == [kind |-> "badcheck", msg |-> msg]

ErrSilent == [kind |-> "silent", msg |-> <<"silent failure">>]

IsBadCheck(err) == err.kind = "badcheck"

----------------------------------------------------------------------------
(* Results of running a Check method. *)

\* visited lists, in order, the keys of the container elements that a
\* quantifier handed to its element-checker factory.
Returns(err, notes) ==
    [err |-> err, notes |-> notes, panicking |-> FALSE, pval |-> <<>>,
     visited |-> <<>>]

Panics(pval, notes) ==
    [err |-> Nil, notes |-> notes, panicking |-> TRUE, pval |-> pval,
     visited |-> <<>>]

\* The result r of the rest of a loop that first visited the element key.
visit(key, r) == [r EXCEPT !.visited = <<key>> \o @]

note(key, value) == [key |-> key, value |-> value]

----------------------------------------------------------------------------
(* Go values. *)
(* A value is [typ, v]: its dynamic type and a payload.  The payload of a   *)
(* string is its sequence of characters; the payload "nil" is the nil value *)
(* of a nilable type.  GoNil is the nil interface (the untyped nil).        *)

GoNil == [typ |-> "nil", v |-> "nil"]

IntVal(s) == [typ |-> "int", v |-> s]

StrVal(s) == [typ |-> "string", v |-> s]

Unquoted(s) == [typ |-> "Unquoted", v |-> s]

TypedNil(t) == [typ |-> t, v |-> "nil"]

\* reflect.Kind of a type.
KindOf(t) ==
    CASE t = "int" -> "int"
      [] t = "string" -> "string"
      [] t = "Unquoted" -> "string"
      [] t = "*int" -> "ptr"
      [] t = "*errTest" -> "ptr"
      [] t = "[]int" -> "slice"
      [] t = "map[string]string" -> "map"
      [] t = "chan int" -> "chan"
      [] t = "func()" -> "func"
      [] t = "struct { Ints []int }" -> "struct"
      [] t = "any" -> "interface"
      [] t = "error" -> "interface"
      [] t = "Fooer" -> "interface"
      [] OTHER -> "invalid"

\* Whether values of the type can be compared with ==.
Comparable(t) == KindOf(t) \notin {"slice", "map", "func", "struct"}

\* Whether the type has an Error() string method.
ImplementsError(t) == t \in {"*errTest", "error"}

IsInterfaceType(t) == KindOf(t) = "interface"

\* canBeNil reports whether a value or type of the given kind can be nil.
canBeNil(k) == k \in {"chan", "func", "interface", "map", "ptr", "slice"}

----------------------------------------------------------------------------
(* The checker used by the tests of the entry points: it emits the stored  *)
(* notes and returns the stored error.                                     *)

NilChecker == [kind |-> "nil"]

testingChecker(paramNames, args, addNotes, err) ==
    [kind |-> "testingChecker", paramNames |-> paramNames, args |-> args,
     addNotes |-> addNotes, err |-> err]

\* The checker calling note on its notes from the last to the first.
testingChecker_Check_lastFirst(c, got) ==
    Returns(c.err, [i \in 1..Len(c.addNotes) |->
                        c.addNotes[Len(c.addNotes) + 1 - i]])

testingChecker_Check(c, got) == Returns(c.err, c.addNotes)

testingChecker_ParamNames(c) == c.paramNames

testingChecker_Args(c) == c.args

(* The same checker in the API whose checkers carry their subject: Args    *)
(* returns (name, value) pairs and Check takes the note callback only.     *)

Arg(name, value) == [Name |-> name, Value |-> value]

testingChecker2(args, addNotes, err) ==
    [kind |-> "testingChecker2", args |-> args, addNotes |-> addNotes,
     err |-> err]

\* The checker adding no notes when its error is the silent one.
testingChecker2_Check_silentNoNotes(c) ==
    Returns(c.err, IF c.err = ErrSilent THEN <<>> ELSE c.addNotes)

testingChecker2_Check(c) == Returns(c.err, c.addNotes)

\* The checker declaring its arguments from the last to the first.
testingChecker2_Args_lastFirst(c) ==
    [i \in 1..Len(c.args) |-> c.args[Len(c.args) + 1 - i]]

testingChecker2_Args(c) == c.args

----------------------------------------------------------------------------
(* IsNil, the checker value whose Check takes the subject as an any. *)

IsNil == [kind |-> "isNilChecker"]

\* isNilChecker.Check without the test for an error holding a nil value.
isNilChecker_Check_noErrorTest(c, got) ==
    IF got.typ = "nil"
    THEN Returns(Nil, <<>>)
    ELSE IF canBeNil(KindOf(got.typ)) /\ got.v = "nil"
    THEN Returns(Nil, <<>>)
    ELSE IF ImplementsError(got.typ)
    THEN Returns(errors_New(<<"got non-nil error">>), <<>>)
    ELSE Returns(errors_New(<<"got non-nil value">>), <<>>)

isNilChecker_Check(c, got) ==
    IF got.typ = "nil"
    THEN Returns(Nil, <<>>)
    ELSE LET isError == ImplementsError(got.typ)
         IN  IF canBeNil(KindOf(got.typ)) /\ got.v = "nil"
             THEN IF isError
                  THEN Returns(errors_New(
                         <<"error containing nil value of type ", got.typ,
                           ". See https://golang.org/doc/faq#nil_error">>), <<>>)
                  ELSE Returns(Nil, <<>>)
             ELSE IF isError
                  THEN Returns(errors_New(<<"got non-nil error">>), <<>>)
                  ELSE Returns(errors_New(<<"got non-nil value">>), <<>>)

isNilChecker_Args(c) == <<>>

isNilChecker_ParamNames(c) == <<"got">>

(* IsNil[T](got): the subject has the static type T; the reflected value   *)
(* is that of the variable holding it, so an interface type T is nil only  *)
(* when the interface itself is nil.                                       *)

IsNilT(T, got) == [kind |-> "isNilCheckerT", T |-> T, got |-> got]

isNilCheckerT_Check(c) ==
    LET isNil == IF IsInterfaceType(c.T) THEN c.got.typ = "nil"
                 ELSE c.got.v = "nil"
    IN  IF ~canBeNil(KindOf(c.T))
        THEN Returns(BadCheckf(<<"type ", c.T, " can never be nil">>), <<>>)
        ELSE IF isNil
        THEN Returns(Nil, <<>>)
        ELSE Returns(errors_New(<<"got non-nil value">>), <<>>)

isNilCheckerT_Args(c) == <<Arg("got", c.got)>>

isNilCheckerT_negatedError(c) ==
    IF c.got.typ # "nil"
    THEN errors_New(<<"got nil ", KindOf(c.got.typ), " but want non-nil">>)
    ELSE errors_New(<<"got <nil> but want non-nil">>)

----------------------------------------------------------------------------
(* Equals. *)

argPair_Args(c) == <<Arg("got", c.got), Arg("want", c.want)>>

Equals(T, got, want) ==
    [kind |-> "equalsChecker", T |-> T, got |-> got, want |-> want]

\* isMultiLine taking a trailing newline for a line break.
isMultiLine_anyNewline(s) == \E i \in 1..Len(s) : s[i] = "\n"

isMultiLine(s) ==
    /\ \E i \in 1..Len(s) : s[i] = "\n"
    /\ (CHOOSE i \in 1..Len(s) :
            s[i] = "\n" /\ \A j \in 1..(i - 1) : s[j] # "\n") < Len(s)

\* cmp.Diff on the lines of two strings, kept as the pair it was computed from.
lineDiff(got, want) == <<"diff">> \o got \o <<"|">> \o want

\* Whether any(a) == any(b) panics: both interfaces hold a value of the
\* same dynamic type, and that type is not comparable.
uncomparable(a, b) == a.typ = b.typ /\ a.typ # "nil" /\ ~Comparable(a.typ)

\* The body of equalsChecker.Check when the comparison does not panic.
equalsChecker_body(c) ==
    IF c.got.typ = c.want.typ /\ c.got.v = c.want.v
    THEN Returns(Nil, <<>>)
    ELSE IF c.T = "error"
    THEN IF c.want.typ = "nil"
         THEN Returns(errors_New(<<"got non-nil error">>), <<>>)
         ELSE IF c.got.typ = "nil"
         THEN Returns(errors_New(<<"got nil error">>), <<>>)
         ELSE Returns(errors_New(<<"values are not equal">>),
                      IF c.got.typ # c.want.typ
                      THEN <<note("got type", Unquoted(<<c.got.typ>>)),
                             note("want type", Unquoted(<<c.want.typ>>))>>
                      ELSE <<>>)
    ELSE IF c.T = "string" /\ (isMultiLine(c.got.v) \/ isMultiLine(c.want.v))
    THEN Returns(errors_New(<<"values are not equal">>),
                 <<note("line diff (-got +want)",
                        Unquoted(lineDiff(c.got.v, c.want.v)))>>)
    ELSE Returns(errors_New(<<"values are not equal">>), <<>>)

\* equalsChecker.Check without the deferred recover.
equalsChecker_Check_noRecover(c) ==
    IF uncomparable(c.got, c.want)
    THEN Panics(<<"runtime error: comparing uncomparable type ", c.got.typ>>,
                <<>>)
    ELSE equalsChecker_body(c)

\* The deferred function turns the panic of the comparison into the error
\* fmt.Errorf("%s", r).
equalsChecker_Check(c) ==
    IF uncomparable(c.got, c.want)
    THEN Returns(errors_New(<<"runtime error: comparing uncomparable type ",
                              c.got.typ>>), <<>>)
    ELSE equalsChecker_body(c)

----------------------------------------------------------------------------
(* CmpEquals and DeepEquals.  A comparison option is user code: "none" is  *)
(* no option, "panics" an option whose function panics when consulted.     *)

CmpEquals(T, got, want, opts) ==
    [kind |-> "cmpEqualsChecker", T |-> T, got |-> got, want |-> want,
     opts |-> opts]

DeepEquals(T, got, want) == CmpEquals(T, got, want, "none")

\* cmp.Diff: the empty text when the values are deep-equal.
cmp_Diff(got, want, opts) ==
    IF opts = "panics"
    THEN [panicking |-> TRUE, diff |-> <<>>]
    ELSE [panicking |-> FALSE,
          diff |-> IF got.typ = want.typ /\ got.v = want.v THEN <<>>
                   ELSE <<"-", got.typ, "+", want.typ>>]

\* The value wrapped for a rendering that depends on its length.
SuppressedIfLong(v) == [typ |-> "SuppressedIfLong", v |-> v]

\* cmpEqualsChecker.Check without the deferred recover.
cmpEqualsChecker_Check_noRecover(c) ==
    LET d == cmp_Diff(c.got, c.want, c.opts)
    IN  IF d.panicking
        THEN Panics(<<"option panicked">>, <<>>)
        ELSE IF d.diff # <<>>
        THEN Returns(ErrSilent,
                     <<note("error", Unquoted(<<"values are not deep equal">>)),
                       note("diff (-got +want)", Unquoted(d.diff)),
                       note("got", SuppressedIfLong(c.got)),
                       note("want", SuppressedIfLong(c.want))>>)
        ELSE Returns(Nil, <<>>)

cmpEqualsChecker_Check(c) ==
    LET d == cmp_Diff(c.got, c.want, c.opts)
    IN  IF d.panicking
        THEN Returns(BadCheckf(<<"option panicked">>), <<>>)
        ELSE IF d.diff # <<>>
        THEN Returns(ErrSilent,
                     <<note("error", Unquoted(<<"values are not deep equal">>)),
                       note("diff (-got +want)", Unquoted(d.diff)),
                       note("got", SuppressedIfLong(c.got)),
                       note("want", SuppressedIfLong(c.want))>>)
        ELSE Returns(Nil, <<>>)

----------------------------------------------------------------------------
(* Satisfies.  The predicate is user code: a function from the subject to  *)
(* "true", "false" or "panic".                                             *)

Satisfies(got, f) == [kind |-> "satisfiesChecker", got |-> got, predicate |-> f]

satisfiesChecker_Check(c) ==
    LET b == c.predicate[c.got]
    IN  IF b = "panic" THEN Panics(<<"predicate">>, <<>>)
        ELSE IF b = "true" THEN Returns(Nil, <<>>)
        ELSE Returns(errors_New(<<"value does not satisfy predicate function">>),
                     <<>>)

satisfiesChecker_Args(c) ==
    <<Arg("got", c.got), Arg("predicate", [typ |-> "func", v |-> "f"])>>

----------------------------------------------------------------------------
(* Regular expressions.  A pattern source is a sequence of tokens: the     *)
(* letters, the grouping parentheses, the alternation bar and the anchors  *)
(* ^ and $.  A source compiles iff its parentheses are balanced.           *)

\* Number of groups open after the first k tokens of p.
RECURSIVE depth(_, _)
depth(p, k) ==
    IF k = 0 THEN 0
    ELSE depth(p, k - 1) + (IF p[k] = "(" THEN 1 ELSE 0)
                         - (IF p[k] = ")" THEN 1 ELSE 0)

\* Unbalanced sources are those regexp.Compile rejects.
\* (depth never drops below zero and ends at zero)
regexp_Valid(p) ==
    /\ \A k \in 1..Len(p) : p[k] = ")" => depth(p, k - 1) > 0
    /\ depth(p, Len(p)) = 0

\* Positions of the alternation bars outside every group.
topBars(p) == {k \in 1..Len(p) : p[k] = "|" /\ depth(p, k - 1) = 0}

Min(S) == CHOOSE x \in S : \A y \in S : x <= y

\* Whether the valid source p matches the text s exactly between the
\* boundaries i and j (0 is the start of the text, Len(s) its end).
RECURSIVE regexp_MatchAt(_, _, _, _)
regexp_MatchAt(p, s, i, j) ==
    IF topBars(p) # {}
    THEN LET k == Min(topBars(p))
         IN  \/ regexp_MatchAt(SubSeq(p, 1, k - 1), s, i, j)
             \/ regexp_MatchAt(SubSeq(p, k + 1, Len(p)), s, i, j)
    ELSE IF p = <<>> THEN i = j
    ELSE IF p[1] = "("
    THEN LET m == Min({k \in 2..Len(p) : depth(p, k) = 0})
         IN  \E k \in i..j :
                /\ regexp_MatchAt(SubSeq(p, 2, m - 1), s, i, k)
                /\ regexp_MatchAt(SubSeq(p, m + 1, Len(p)), s, k, j)
    ELSE IF p[1] = "^" THEN i = 0 /\ regexp_MatchAt(Tail(p), s, i, j)
    ELSE IF p[1] = "$" THEN i = Len(s) /\ regexp_MatchAt(Tail(p), s, i, j)
    ELSE /\ i < j
         /\ s[i + 1] = p[1]
         /\ regexp_MatchAt(Tail(p), s, i + 1, j)

\* (*Regexp).MatchString: whether the text contains any match of p.
regexp_MatchString(p, s) ==
    \E i \in 0..Len(s) : \E j \in i..Len(s) : regexp_MatchAt(p, s, i, j)

\* match checks that the given error message matches the given pattern.
match(got, regex, msg) ==
    LET src == <<"^", "(">> \o regex \o <<")", "$">>
    IN  IF ~regexp_Valid(src)
        THEN Returns(BadCheckf(<<"cannot compile regexp: ">> \o src),
                     <<note("regexp", StrVal(regex))>>)
        ELSE IF regexp_MatchString(src, got) THEN Returns(Nil, <<>>)
        ELSE Returns(errors_New(<<msg>>), <<>>)

(* A StringOrRegexp is [kind, src]: a pattern string, or a precompiled     *)
(* pattern object, whose source is valid.                                  *)

PatternString(src) == [kind |-> "string", src |-> src]

Regexp(src) == [kind |-> "Regexp", src |-> src]

\* newMatcher compiling a pattern string as it is given.
newMatcher_unanchored(regex) ==
    [compiled |-> regexp_Valid(regex.src), r |-> regex.src, re |-> regex.src]

\* newMatcher returns the matcher: whether the pattern compiled, the
\* pattern as given, and the source of the expression that is matched.
newMatcher(regex) ==
    IF regex.kind = "string"
    THEN LET src == <<"^", "(">> \o regex.src \o <<")", "$">>
         IN  IF ~regexp_Valid(src)
             THEN [compiled |-> FALSE, r |-> regex.src, re |-> src]
             ELSE [compiled |-> TRUE, r |-> regex.src, re |-> src]
    ELSE [compiled |-> TRUE, r |-> regex.src, re |-> regex.src]

\* The matcher reporting a pattern that does not compile as a mismatch.
matcher_Call_mismatch(m, got, msg) ==
    IF ~m.compiled
    THEN Returns(errors_New(<<msg>>), <<note("regexp", StrVal(m.r))>>)
    ELSE IF regexp_MatchString(m.re, got) THEN Returns(Nil, <<>>)
    ELSE Returns(errors_New(<<msg>>), <<>>)

\* A call of the function newMatcher returned.
matcher_Call(m, got, msg) ==
    IF ~m.compiled
    THEN Returns(BadCheckf(<<"cannot compile regexp: ">> \o m.re),
                 <<note("regexp", StrVal(m.r))>>)
    ELSE IF regexp_MatchString(m.re, got) THEN Returns(Nil, <<>>)
    ELSE Returns(errors_New(<<msg>>), <<>>)

Matches(got, want) ==
    [kind |-> "matchesChecker", got |-> got, want |-> want,
     match |-> newMatcher(want)]

matchesChecker_Check(c) ==
    matcher_Call(c.match, c.got, "value does not match regexp")

\* An error is GoNil or a value whose payload is its message.
ErrorMatches(got, want) ==
    [kind |-> "errorMatchesChecker", got |-> got, want |-> want,
     match |-> newMatcher(want)]

errorMatchesChecker_Check(c) ==
    IF c.got.typ = "nil"
    THEN Returns(errors_New(<<"got nil error but want non-nil">>), <<>>)
    ELSE matcher_Call(c.match, c.got.v, "error does not match regexp")

\* The function is user code: it returns, or panics with a value whose
\* text is f.pval.
PanicMatches(f, want) ==
    [kind |-> "panicMatchesChecker", got |-> f, want |-> want,
     match |-> newMatcher(want)]

\* The check that notes the panic value only when the matcher succeeds or
\* reports a mismatch.
panicMatchesChecker_Check_noNoteIfBad(c) ==
    IF ~c.got.panics
    THEN Returns(errors_New(<<"function did not panic">>), <<>>)
    ELSE LET r == matcher_Call(c.match, c.got.pval,
                               "panic value does not match regexp")
         IN  Returns(r.err,
                     IF IsBadCheck(r.err) THEN r.notes
                     ELSE <<note("panic value", StrVal(c.got.pval))>> \o r.notes)

panicMatchesChecker_Check(c) ==
    IF ~c.got.panics
    THEN Returns(errors_New(<<"function did not panic">>), <<>>)
    ELSE LET r == matcher_Call(c.match, c.got.pval,
                               "panic value does not match regexp")
         IN  Returns(r.err, <<note("panic value", StrVal(c.got.pval))>> \o r.notes)

regexpArg(want) ==
    IF want.kind = "string" THEN StrVal(want.src)
    ELSE [typ |-> "*regexp.Regexp", v |-> want.src]

matchesChecker_Args(c) ==
    <<Arg("got value", StrVal(c.got)), Arg("regexp", regexpArg(c.want))>>

errorMatchesChecker_Args(c) ==
    <<Arg("got error", c.got), Arg("regexp", regexpArg(c.want))>>

panicMatchesChecker_Args(c) ==
    <<Arg("function", [typ |-> "func()", v |-> "f"]),
      Arg("regexp", regexpArg(c.want))>>

----------------------------------------------------------------------------
(* Implements[I](got): the subject is an any, the wanted type is I. *)

\* reflect.Type.Implements, for an interface type I: every type implements
\* any, the types with an Error method implement error, none Fooer.
Type_Implements(t, I) ==
    CASE I = "any" -> TRUE
      [] I = "error" -> ImplementsError(t)
      [] OTHER -> FALSE

Implements(I, got) == [kind |-> "implementsChecker", got |-> got, want |-> I]

\* implementsChecker.Check testing the wanted type before the subject.
implementsChecker_Check_wantFirst(c) ==
    IF KindOf(c.want) # "interface"
    THEN Returns(BadCheckf(<<"want an interface type but a concrete type was provided">>),
                 <<note("want interface", Unquoted(<<c.want>>))>>)
    ELSE IF c.got = GoNil
    THEN Returns(ErrSilent,
                 <<note("error", Unquoted(<<"got nil value but want non-nil">>)),
                   note("got", c.got)>>)
    ELSE IF ~Type_Implements(c.got.typ, c.want)
    THEN Returns(errors_New(<<"got value does not implement wanted interface">>),
                 <<>>)
    ELSE Returns(Nil, <<>>)

implementsChecker_Check(c) ==
    IF c.got = GoNil
    THEN Returns(ErrSilent,
                 <<note("error", Unquoted(<<"got nil value but want non-nil">>)),
                   note("got", c.got)>>)
    ELSE IF KindOf(c.want) # "interface"
    THEN Returns(BadCheckf(<<"want an interface type but a concrete type was provided">>),
                 <<note("want interface", Unquoted(<<c.want>>))>>)
    ELSE IF ~Type_Implements(c.got.typ, c.want)
    THEN Returns(errors_New(<<"got value does not implement wanted interface">>),
                 <<>>)
    ELSE Returns(Nil, <<>>)

implementsChecker_Args(c) ==
    <<Arg("got", c.got), Arg("want interface", Unquoted(<<c.want>>))>>

----------------------------------------------------------------------------
(* CodecEquals and JSONEquals.  The codec is the pair of functions the     *)
(* caller passes.  An encoded payload is a text; decoding yields the       *)
(* generic value of the codec: JSON numbers decode to float64.             *)

\* The result of an encoding or decoding function: a value, or an error.
codecOK(val) == [ok |-> TRUE, val |-> val, err |-> <<>>]

codecErr(msg) == [ok |-> FALSE, val |-> GoNil, err |-> msg]

\* json.Marshal on the values of the tests.
json_Marshal(v) ==
    CASE v = GoNil -> codecOK(<<"null">>)
      [] v.typ = "int" -> codecOK(<<v.v>>)
      [] v.typ = "json.RawMessage" -> codecOK(v.v)
      [] OTHER -> codecErr(<<"json: error calling MarshalJSON for type ", v.typ>>)

\* json.Unmarshal into an any.
json_Unmarshal(b) ==
    CASE b = <<"null">> -> codecOK(GoNil)
      [] b \in {<<"1">>, <<"2">>} -> codecOK([typ |-> "float64", v |-> b[1]])
      [] OTHER -> codecErr(<<"invalid character in ">> \o b)

\* The marshal functions: json.Marshal, and
\* func(x any) ([]byte, error) { return []byte("bad json"), nil }.
codec_marshal(f, v) ==
    IF f = "json.Marshal" THEN json_Marshal(v) ELSE codecOK(<<"bad json">>)

codec_unmarshal(f, b) == json_Unmarshal(b)

CodecEquals(got, want, marshal, unmarshal, opts) ==
    [kind |-> "codecEqualChecker", got |-> got, want |-> want,
     marshal |-> marshal, unmarshal |-> unmarshal, opts |-> opts]

JSONEquals(got, want) ==
    CodecEquals(got, want, "json.Marshal", "json.Unmarshal", "none")

\* codecEqualChecker.Check decoding the obtained contents first.
codecEqualChecker_Check_gotFirst(c) ==
    LET w == codec_marshal(c.marshal, c.want)
        u == codec_unmarshal(c.unmarshal, w.val)
        g == codec_unmarshal(c.unmarshal, c.got.v)
    IN  IF ~g.ok
        THEN Returns(errors_New(<<"cannot unmarshal obtained contents: ">>
                                \o g.err \o <<"; ">> \o c.got.v), <<>>)
        ELSE IF ~w.ok
        THEN Returns(BadCheckf(<<"cannot marshal expected contents: ">> \o w.err),
                     <<>>)
        ELSE IF ~u.ok
        THEN Returns(BadCheckf(<<"cannot unmarshal expected contents: ">>
                               \o u.err), <<>>)
        ELSE cmpEqualsChecker_Check(CmpEquals("any", g.val, u.val, c.opts))

codecEqualChecker_Check(c) ==
    LET w == codec_marshal(c.marshal, c.want)
        u == codec_unmarshal(c.unmarshal, w.val)
        g == codec_unmarshal(c.unmarshal, c.got.v)
    IN  IF ~w.ok
        THEN Returns(BadCheckf(<<"cannot marshal expected contents: ">> \o w.err),
                     <<>>)
        ELSE IF ~u.ok
        THEN Returns(BadCheckf(<<"cannot unmarshal expected contents: ">>
                               \o u.err), <<>>)
        ELSE IF ~g.ok
        THEN Returns(errors_New(<<"cannot unmarshal obtained contents: ">>
                                \o g.err \o <<"; ">> \o c.got.v), <<>>)
        ELSE cmpEqualsChecker_Check(CmpEquals("any", g.val, u.val, c.opts))

----------------------------------------------------------------------------
(* ErrorIs and ErrorAs. *)
(* An error is a value [typ, v]; a leaf error carries the label that       *)
(* identifies it, and an error built by fmt.Errorf("...%w", e) carries its *)
(* prefix and the error e it wraps.                                        *)

WrapError(prefix, e) == [typ |-> "*fmt.wrapError", v |-> <<prefix, e>>]

errors_Unwrap(e) == IF e.typ = "*fmt.wrapError" THEN e.v[2] ELSE GoNil

\* The number of errors in the chain of e.
RECURSIVE chainLen(_)
chainLen(e) == IF e = GoNil THEN 0 ELSE 1 + chainLen(errors_Unwrap(e))

\* The walk of errors.Is down the chain of err.
RECURSIVE errors_is(_, _)
errors_is(err, target) ==
    IF err.typ = target.typ /\ err.v = target.v THEN TRUE
    ELSE LET u == errors_Unwrap(err)
         IN  IF u = GoNil THEN FALSE ELSE errors_is(u, target)

errors_Is(err, target) ==
    IF err = GoNil \/ target = GoNil
    THEN err = target
    ELSE errors_is(err, target)

ErrorIs(got, want) == [kind |-> "errorIsChecker", got |-> got, want |-> want]

\* The check without its test of a nil subject.
errorIsChecker_Check_noNilTest(c) ==
    IF ~errors_Is(c.got, c.want)
    THEN Returns(errors_New(<<"wanted error is not found in error chain">>), <<>>)
    ELSE Returns(Nil, <<>>)

errorIsChecker_Check(c) ==
    IF c.got = GoNil /\ c.want # GoNil
    THEN Returns(errors_New(<<"got nil error but want non-nil">>), <<>>)
    ELSE IF ~errors_Is(c.got, c.want)
    THEN Returns(errors_New(<<"wanted error is not found in error chain">>), <<>>)
    ELSE Returns(Nil, <<>>)

\* The types with an Error() string method.
ErrorTypes ==
    {"*errTarget", "errTargetNonPtr", "*errors.errorString", "*fmt.wrapError"}

\* Whether a value of type t can be assigned to a variable of type T.
AssignableTo(t, T) ==
    \/ t = T
    \/ T = "any"
    \/ T = "error" /\ t \in ErrorTypes

RECURSIVE errors_as(_, _)
errors_as(err, T) ==
    IF AssignableTo(err.typ, T) THEN TRUE
    ELSE LET u == errors_Unwrap(err)
         IN  IF u = GoNil THEN FALSE ELSE errors_as(u, T)

\* errors.As for a target of type *T: whether it panics, and what it found.
errors_As(err, T) ==
    IF err = GoNil
    THEN [panicking |-> FALSE, pval |-> <<>>, found |-> FALSE]
    ELSE IF ~(T \in {"any", "error"}) /\ T \notin ErrorTypes
    THEN [panicking |-> TRUE,
          pval |-> <<"errors: *target must be interface or implement error">>,
          found |-> FALSE]
    ELSE [panicking |-> FALSE, pval |-> <<>>, found |-> errors_as(err, T)]

ErrorAs(got, T) == [kind |-> "errorAsChecker", got |-> got, T |-> T]

\* The check without the deferred recover.
errorAsChecker_Check_noRecover(c) ==
    IF c.got = GoNil
    THEN Returns(errors_New(<<"got nil error but want non-nil">>), <<>>)
    ELSE LET r == errors_As(c.got, c.T)
         IN  IF r.panicking THEN Panics(r.pval, <<>>)
             ELSE IF ~r.found
             THEN Returns(errors_New(<<"wanted type is not found in error chain">>), <<>>)
             ELSE Returns(Nil, <<>>)

errorAsChecker_Check(c) ==
    IF c.got = GoNil
    THEN Returns(errors_New(<<"got nil error but want non-nil">>), <<>>)
    ELSE LET r == errors_As(c.got, c.T)
         IN  IF r.panicking THEN Returns(BadCheckf(r.pval), <<>>)
             ELSE IF ~r.found
             THEN Returns(errors_New(<<"wanted type is not found in error chain">>), <<>>)
             ELSE Returns(Nil, <<>>)

errorAsChecker_Args(c) ==
    <<Arg("got", c.got), Arg("as type", Unquoted(<<c.T>>))>>

----------------------------------------------------------------------------
(* DeepEquals of the API whose Check takes the subject: the checker       *)
(* carries the verbosity it was built with.                               *)

deepEqualsChecker(want, opts, verbosity) ==
    [kind |-> "deepEqualsChecker", want |-> want, opts |-> opts,
     verbosity |-> verbosity]

\* The check returning the plain error whatever the verbosity.
deepEqualsChecker_Check_neverSilent(c, got) ==
    LET d == cmp_Diff(got, c.want, c.opts)
    IN  IF d.panicking
        THEN Returns(errors_New(<<"option panicked">>), <<>>)
        ELSE IF d.diff # <<>>
        THEN Returns(errors_New(<<"values are not deep equal">>),
                     <<note("diff (-got +want)", Unquoted(d.diff))>>)
        ELSE Returns(Nil, <<>>)

deepEqualsChecker_Check(c, got) ==
    LET d == cmp_Diff(got, c.want, c.opts)
    IN  IF d.panicking
        THEN Returns(errors_New(<<"option panicked">>), <<>>)
        ELSE IF d.diff # <<>>
        THEN IF c.verbosity
             THEN Returns(errors_New(<<"values are not deep equal">>),
                          <<note("diff (-got +want)", Unquoted(d.diff))>>)
             ELSE Returns(ErrSilent,
                          <<note("error", Unquoted(<<"values are not deep equal">>)),
                            note("diff (-got +want)", Unquoted(d.diff))>>)
        ELSE Returns(Nil, <<>>)

deepEqualsChecker_Args(c) == <<c.want>>

deepEqualsChecker_ParamNames(c) == <<"got", "want">>

----------------------------------------------------------------------------
(* Not, and the quantifiers over containers.  These run other checkers,    *)
(* so they are defined together with the interface dispatch.               *)

RECURSIVE Checker_Check(_, _)
RECURSIVE Checker_Args(_)
RECURSIVE Checker_ArgsPanics(_)

\* Not without the collapse of a double negation.
Not_noCollapse(c) == [kind |-> "notChecker", Checker |-> c]

\* Not(Not(c)) becomes c.
Not(c) ==
    IF c.kind = "notChecker" THEN c.Checker
    ELSE [kind |-> "notChecker", Checker |-> c]

\* No checker declares a negated-failure message.
HasNegatedError_never(c) == FALSE

\* Whether the dynamic type of the checker has a negatedError method.
HasNegatedError(c) == c.kind = "isNilCheckerT"

\* notChecker.Check without the test for a bad check.
notChecker_Check_noBadCheckTest(c) ==
    LET r == Checker_Check(c.Checker, GoNil)
    IN  IF r.panicking THEN r
        ELSE IF r.err # Nil THEN [r EXCEPT !.err = Nil]
        ELSE IF HasNegatedError(c.Checker)
        THEN [r EXCEPT !.err = isNilCheckerT_negatedError(c.Checker)]
        ELSE [r EXCEPT !.err = errors_New(<<"unexpected success">>)]

notChecker_Check(c) ==
    LET r == Checker_Check(c.Checker, GoNil)
    IN  IF r.panicking THEN r
        ELSE IF IsBadCheck(r.err) THEN r
        ELSE IF r.err # Nil THEN [r EXCEPT !.err = Nil]
        ELSE IF HasNegatedError(c.Checker)
        THEN [r EXCEPT !.err = isNilCheckerT_negatedError(c.Checker)]
        ELSE [r EXCEPT !.err = errors_New(<<"unexpected success">>)]

\* The text of an error, as Error() returns it.
errorText(err) ==
    IF IsBadCheck(err) THEN <<"bad check: ">> \o err.msg ELSE err.msg

(* A container is the sequence of (key, value) items its iterator yields;  *)
(* elemChecker maps an element to the checker the factory returns for it,  *)
(* or to PanicFactory when the factory panics on that element.             *)

PanicFactory == [kind |-> "panic"]

allChecker(items, container, zero, f) ==
    [kind |-> "allChecker", items |-> items, container |-> container,
     zero |-> zero, elemChecker |-> f]

anyChecker(items, container, zero, f) ==
    [kind |-> "anyChecker", items |-> items, container |-> container,
     zero |-> zero, elemChecker |-> f]

\* allChecker.Check handing on the notes of the sub-check as they come,
\* before its own.
allChecker_mismatch_notesFirst(it, r) ==
    IF IsBadCheck(r.err)
    THEN Returns(BadCheckf(<<"at ">> \o it.key \o <<": ">> \o errorText(r.err)),
                 <<>>)
    ELSE Returns(ErrSilent,
            r.notes
            \o <<note("error", Unquoted(<<"mismatch at ">> \o it.key))>>
            \o (IF r.err # ErrSilent
                THEN <<note("error", Unquoted(errorText(r.err))),
                       note("first mismatched element", it.value)>>
                ELSE <<>>))

\* The key of a map entry printed as it is, without quotes.
mapValueIter_key_plain(k) == <<"key ", k>>

\* mapValueIter.key: the key of the entry, a string, printed with %#v.
mapValueIter_key(k) == <<"key ", "\"", k, "\"">>

\* The items a map iterator yields when MapRange visits the keys of the map
\* m in the given order.
newMapIter(m, order) ==
    [i \in 1..Len(order) |->
        [key |-> mapValueIter_key(order[i]), value |-> m[order[i]]]]

\* What allChecker.Check returns for the item it whose check returned the
\* error of r.
allChecker_mismatch(it, r) ==
    IF IsBadCheck(r.err)
    THEN Returns(BadCheckf(<<"at ">> \o it.key \o <<": ">> \o errorText(r.err)),
                 <<>>)
    ELSE Returns(ErrSilent,
            <<note("error", Unquoted(<<"mismatch at ">> \o it.key))>>
            \o (IF r.err # ErrSilent
                THEN <<note("error", Unquoted(errorText(r.err))),
                       note("first mismatched element", it.value)>>
                ELSE <<>>)
            \o r.notes)

\* The loop of allChecker.Check going on after a mismatch, and reporting
\* the last one.
RECURSIVE allChecker_Loop_last(_, _)
allChecker_Loop_last(c, i) ==
    IF i > Len(c.items) THEN Returns(Nil, <<>>)
    ELSE
      LET it      == c.items[i]
          checker == c.elemChecker[it.value]
      IN  IF checker.kind = "panic"
          THEN visit(it.key, Panics(<<"factory">>, <<>>))
          ELSE
            LET r    == Checker_Check(checker, GoNil)
                rest == allChecker_Loop_last(c, i + 1)
            IN  IF r.panicking THEN visit(it.key, Panics(r.pval, <<>>))
                ELSE IF r.err = Nil \/ rest.err # Nil \/ rest.panicking
                THEN visit(it.key, rest)
                ELSE visit(it.key, [allChecker_mismatch(it, r)
                                      EXCEPT !.visited = rest.visited])

RECURSIVE allChecker_Loop(_, _)
allChecker_Loop(c, i) ==
    IF i > Len(c.items) THEN Returns(Nil, <<>>)
    ELSE
      LET it      == c.items[i]
          checker == c.elemChecker[it.value]
      IN  IF checker.kind = "panic"
          THEN visit(it.key, Panics(<<"factory">>, <<>>))
          ELSE
            LET r == Checker_Check(checker, GoNil)
            IN  IF r.panicking THEN visit(it.key, Panics(r.pval, <<>>))
                ELSE IF r.err = Nil THEN visit(it.key, allChecker_Loop(c, i + 1))
                ELSE visit(it.key, allChecker_mismatch(it, r))

\* allChecker.Check taking a bad check for a mismatch.
allChecker_Check_badIsMismatch(c) ==
    LET r == allChecker_Loop(c, 1)
    IN  IF IsBadCheck(r.err) THEN [r EXCEPT !.err = ErrSilent] ELSE r

allChecker_Check(c) == allChecker_Loop(c, 1)

\* The loop of anyChecker.Check without the test for a bad check.
RECURSIVE anyChecker_Loop_noBadCheck(_, _)
anyChecker_Loop_noBadCheck(c, i) ==
    IF i > Len(c.items)
    THEN Returns(errors_New(<<"no matching element found">>), <<>>)
    ELSE
      LET it      == c.items[i]
          checker == c.elemChecker[it.value]
      IN  IF checker.kind = "panic"
          THEN visit(it.key, Panics(<<"factory">>, <<>>))
          ELSE
            LET r == Checker_Check(checker, GoNil)
            IN  IF r.panicking THEN visit(it.key, Panics(r.pval, <<>>))
                ELSE IF r.err = Nil THEN visit(it.key, Returns(Nil, <<>>))
                ELSE visit(it.key, anyChecker_Loop_noBadCheck(c, i + 1))

RECURSIVE anyChecker_Loop(_, _)
anyChecker_Loop(c, i) ==
    IF i > Len(c.items)
    THEN Returns(errors_New(<<"no matching element found">>), <<>>)
    ELSE
      LET it      == c.items[i]
          checker == c.elemChecker[it.value]
      IN  IF checker.kind = "panic"
          THEN visit(it.key, Panics(<<"factory">>, <<>>))
          ELSE
            LET r == Checker_Check(checker, GoNil)
            IN  IF r.panicking THEN visit(it.key, Panics(r.pval, <<>>))
                ELSE IF r.err = Nil THEN visit(it.key, Returns(Nil, <<>>))
                ELSE IF IsBadCheck(r.err)
                THEN visit(it.key,
                        Returns(BadCheckf(<<"at ">> \o it.key \o <<": ">>
                                          \o errorText(r.err)), <<>>))
                ELSE visit(it.key, anyChecker_Loop(c, i + 1))

\* anyChecker.Check going through every element before it returns.
anyChecker_Check_visitsAll(c) ==
    [anyChecker_Loop(c, 1)
        EXCEPT !.visited = [i \in 1..Len(c.items) |-> c.items[i].key]]

anyChecker_Check(c) == anyChecker_Loop(c, 1)

\* Args of a quantifier: the container, then the element checker's
\* arguments but the first, taken from a checker made for the zero value.
quantifier_Args(c) ==
    LET eargs == Checker_Args(c.elemChecker[c.zero])
    IN  <<Arg("container", c.container)>>
        \o (IF Len(eargs) > 0 THEN Tail(eargs) ELSE <<>>)

\* Whether Args panics: the factory panics on the zero value, or Args of
\* the checker it returns does.
quantifier_ArgsPanics(c) ==
    \/ c.elemChecker[c.zero].kind = "panic"
    \/ Checker_ArgsPanics(c.elemChecker[c.zero])

----------------------------------------------------------------------------
(* Interface dispatch on the dynamic type of the checker.  A checker that  *)
(* carries its subject ignores the subject passed to the entry point.      *)

Checker_Check(c, got) ==
    CASE c.kind = "testingChecker" -> testingChecker_Check(c, got)
      [] c.kind = "isNilChecker" -> isNilChecker_Check(c, got)
      [] c.kind = "deepEqualsChecker" -> deepEqualsChecker_Check(c, got)
      [] c.kind = "testingChecker2" -> testingChecker2_Check(c)
      [] c.kind = "isNilCheckerT" -> isNilCheckerT_Check(c)
      [] c.kind = "equalsChecker" -> equalsChecker_Check(c)
      [] c.kind = "cmpEqualsChecker" -> cmpEqualsChecker_Check(c)
      [] c.kind = "satisfiesChecker" -> satisfiesChecker_Check(c)
      [] c.kind = "matchesChecker" -> matchesChecker_Check(c)
      [] c.kind = "errorMatchesChecker" -> errorMatchesChecker_Check(c)
      [] c.kind = "panicMatchesChecker" -> panicMatchesChecker_Check(c)
      [] c.kind = "implementsChecker" -> implementsChecker_Check(c)
      [] c.kind = "codecEqualChecker" -> codecEqualChecker_Check(c)
      [] c.kind = "errorIsChecker" -> errorIsChecker_Check(c)
      [] c.kind = "errorAsChecker" -> errorAsChecker_Check(c)
      [] c.kind = "notChecker" -> notChecker_Check(c)
      [] c.kind = "allChecker" -> allChecker_Check(c)
      [] c.kind = "anyChecker" -> anyChecker_Check(c)

Checker_Args(c) ==
    CASE c.kind = "testingChecker" -> testingChecker_Args(c)
      [] c.kind = "isNilChecker" -> isNilChecker_Args(c)
      [] c.kind = "deepEqualsChecker" -> deepEqualsChecker_Args(c)
      [] c.kind = "testingChecker2" -> testingChecker2_Args(c)
      [] c.kind = "isNilCheckerT" -> isNilCheckerT_Args(c)
      [] c.kind = "equalsChecker" -> argPair_Args(c)
      [] c.kind = "cmpEqualsChecker" -> argPair_Args(c)
      [] c.kind = "satisfiesChecker" -> satisfiesChecker_Args(c)
      [] c.kind = "matchesChecker" -> matchesChecker_Args(c)
      [] c.kind = "errorMatchesChecker" -> errorMatchesChecker_Args(c)
      [] c.kind = "panicMatchesChecker" -> panicMatchesChecker_Args(c)
      [] c.kind = "implementsChecker" -> implementsChecker_Args(c)
      [] c.kind = "codecEqualChecker" -> argPair_Args(c)
      [] c.kind = "errorIsChecker" -> argPair_Args(c)
      [] c.kind = "errorAsChecker" -> errorAsChecker_Args(c)
      [] c.kind = "notChecker" -> Checker_Args(c.Checker)
      [] c.kind = "allChecker" -> quantifier_Args(c)
      [] c.kind = "anyChecker" -> quantifier_Args(c)

Checker_ArgsPanics(c) ==
    CASE c.kind = "notChecker" -> Checker_ArgsPanics(c.Checker)
      [] c.kind = "allChecker" -> quantifier_ArgsPanics(c)
      [] c.kind = "anyChecker" -> quantifier_ArgsPanics(c)
      [] OTHER -> FALSE

\* Whether the checker belongs to the API that passes the subject to Check.
TakesGot(c) ==
    c.kind \in {"testingChecker", "isNilChecker", "deepEqualsChecker"}

Checker_ParamNames(c) ==
    CASE c.kind = "testingChecker" -> testingChecker_ParamNames(c)
      [] c.kind = "isNilChecker" -> isNilChecker_ParamNames(c)
      [] c.kind = "deepEqualsChecker" -> deepEqualsChecker_ParamNames(c)
      [] OTHER -> <<>>

----------------------------------------------------------------------------
(* The failure report. *)

NoComment == <<>>

\* The rendering of a value that is printed whatever its length.
formatValue(v) ==
    CASE v.typ = "string" -> <<"\"">> \o v.v \o <<"\"">>
      [] v.typ = "Unquoted" -> v.v
      [] v.typ = "nil" -> <<"nil">>
      [] v.typ = "*regexp.Regexp" -> <<"s\"">> \o v.v \o <<"\"">>
      [] OTHER -> <<v.typ, "(", v.v, ")">>

\* The number of lines of the rendering: a slice of interface values is
\* rendered with one line for itself, seven for each struct element and one
\* for each other element; any other value on one line.
RECURSIVE elemLines(_)
elemLines(s) ==
    IF s = <<>> THEN 0
    ELSE (IF Head(s) = "cmpType" THEN 7 ELSE 1) + elemLines(Tail(s))

lineCount(v) == IF v.typ = "[]any" THEN 1 + elemLines(v.v) ELSE 1

\* Renderings with more lines than this are suppressed unless verbose.
longValueLines == 10

suppressed(n) ==
    <<"<suppressed due to length (", ToString(n),
      " lines), use -v for full output>">>

\* The rendering of a value.
Format(v) ==
    IF v.typ = "SuppressedIfLong"
    THEN IF verbose \/ lineCount(v.v) <= longValueLines
         THEN formatValue(v.v)
         ELSE suppressed(lineCount(v.v))
    ELSE formatValue(v)

reportParams(got) ==
    [got |-> got, args |-> <<>>, paramNames |-> <<>>, comment |-> NoComment,
     notes |-> <<>>]

\* The named arguments of the report: the parameter names paired with the
\* subject and the arguments, or the (name, value) pairs of the checker.
reportArgs(rp) ==
    IF rp.paramNames # <<>>
    THEN [i \in 1..Len(rp.paramNames) |->
            [key   |-> rp.paramNames[i],
             value |-> IF i = 1 THEN rp.got
                       ELSE IF i - 1 <= Len(rp.args) THEN rp.args[i - 1]
                       ELSE GoNil]]
    ELSE [i \in 1..Len(rp.args) |->
            [key |-> rp.args[i].Name, value |-> rp.args[i].Value]]

\* The frames of the caller, from the call of the entry point outwards.
callerStack == <<"$file:$line", "call of the entry point">>

report(err, rp) ==
    [stack   |-> callerStack,
     error   |-> IF err = ErrSilent THEN <<>> ELSE errorText(err),
     comment |-> rp.comment,
     notes   |-> [i \in 1..Len(rp.notes) |->
                    [key |-> rp.notes[i].key, text |-> Format(rp.notes[i].value)]],
     args    |-> IF err = ErrSilent \/ IsBadCheck(err) THEN <<>>
                 ELSE [i \in 1..Len(reportArgs(rp)) |->
                        [key  |-> reportArgs(rp)[i].key,
                         text |-> Format(reportArgs(rp)[i].value)]]]

\* The sections of the report in the order in which they are written: the
\* error, the comment, the notes, the arguments, the stack.
section(name, key, text) == [section |-> name, key |-> key, text |-> text]

backReference(name) == <<"<same as \"", name, "\">">>

isSuppressed(text) == Len(text) > 0 /\ text[1] = "<suppressed due to length ("

\* The notes and arguments as they are written, one after the other: values
\* holds, for every text written in full so far, the key it was written
\* under; an entry whose text is in values is written as a back-reference
\* to that key.  The marker of a suppressed value is written as it is.
RECURSIVE printPairs(_, _)
printPairs(entries, values) ==
    IF entries = <<>> THEN <<>>
    ELSE LET e    == Head(entries)
             hits == SelectSeq(values, LAMBDA p : p.text = e.text)
         IN  IF isSuppressed(e.text)
             THEN <<e>> \o printPairs(Tail(entries), values)
             ELSE IF hits # <<>>
             THEN <<[e EXCEPT !.text = backReference(hits[1].key)]>>
                     \o printPairs(Tail(entries), values)
             ELSE <<e>> \o printPairs(Tail(entries),
                                      Append(values, [text |-> e.text, key |-> e.key]))

reportText(r) ==
    (IF r.error # <<>> THEN <<section("error", "error", r.error)>> ELSE <<>>)
    \o (IF r.comment # <<>> THEN <<section("comment", "comment", r.comment)>>
        ELSE <<>>)
    \o printPairs(
          [i \in 1..Len(r.notes) |-> section("note", r.notes[i].key, r.notes[i].text)]
          \o [i \in 1..Len(r.args) |-> section("arg", r.args[i].key, r.args[i].text)],
          <<>>)
    \o <<section("stack", "stack", r.stack)>>

----------------------------------------------------------------------------
(* The entry points. *)

\* The method calls made on the checker, and the elements its Check
\* visited.
NoCalls == [Check |-> 0, Args |-> 0, ParamNames |-> 0, elems |-> <<>>]

checkParams(fail, checker, got, comment) ==
    [fail |-> fail, checker |-> checker, got |-> got, comment |-> comment]

\* The result of check: the returned flag, the reports handed to p.fail in
\* order, the method calls made on the checker, and whether a panic left it.
checkResult(okFlag, failed, cs, panicking) ==
    [ok |-> okFlag, failed |-> failed, calls |-> cs, panicking |-> panicking]

\* check with the nil test missing: the first method call on the nil
\* checker panics.
check_noNilTest(p) ==
    IF p.checker.kind = "nil" \/ Checker_ArgsPanics(p.checker)
    THEN checkResult(FALSE, <<>>, [NoCalls EXCEPT !.Args = 1], TRUE)
    ELSE
      LET r  == Checker_Check(p.checker, p.got)
          rp == [reportParams(p.got) EXCEPT
                    !.args = Checker_Args(p.checker),
                    !.paramNames = Checker_ParamNames(p.checker),
                    !.comment = IF Len(p.comment) > 0
                                THEN p.comment[1] ELSE NoComment,
                    !.notes = r.notes]
          cs == [Check |-> 1, Args |-> 1, ParamNames |-> 1,
                 elems |-> r.visited]
      IN  IF r.panicking THEN checkResult(FALSE, <<>>, cs, TRUE)
          ELSE IF r.err # Nil
          THEN checkResult(FALSE, <<report(r.err, rp)>>, cs, FALSE)
          ELSE checkResult(TRUE, <<>>, cs, FALSE)

check(p) ==
    LET rp0 == reportParams(p.got)
    IN  IF p.checker.kind = "nil"
        THEN checkResult(FALSE,
                <<report(BadCheckf(<<"nil checker provided">>), rp0)>>,
                NoCalls, FALSE)
        ELSE IF Checker_ArgsPanics(p.checker)
        THEN checkResult(FALSE, <<>>, [NoCalls EXCEPT !.Args = 1], TRUE)
        ELSE
          LET rp1 == [rp0 EXCEPT !.args = Checker_Args(p.checker),
                                 !.paramNames = Checker_ParamNames(p.checker),
                                 !.comment = IF Len(p.comment) > 0
                                             THEN p.comment[1] ELSE NoComment]
              r   == Checker_Check(p.checker, p.got)
              rp  == [rp1 EXCEPT !.notes = r.notes]
              cs  == [Check |-> 1, Args |-> 1, ParamNames |-> 1,
                      elems |-> r.visited]
          IN  IF r.panicking THEN checkResult(FALSE, <<>>, cs, TRUE)
              ELSE IF r.err # Nil
              THEN checkResult(FALSE, <<report(r.err, rp)>>, cs, FALSE)
              ELSE checkResult(TRUE, <<>>, cs, FALSE)

\* The fail primitives exchanged between the two entry points.
failOf_swapped(entry) == IF entry = "Assert" THEN "Error" ELSE "Fatal"

\* The fail primitive each entry point hands to check.
failOf(entry) == IF entry = "Assert" THEN "Fatal" ELSE "Error"

testingT == [errorBuf |-> <<>>, fatalBuf |-> <<>>]

Entries == {"Assert", "Check"}

\* One subtest: a fresh testingT, then the one call of the entry point on
\* it; the subtest ends when the call has returned or panicked.
\* orig is the checker of the test case, checker the one handed to the
\* entry point, and form how it was built from orig: "c", "Not(c)" or
\* "Not(Not(c))".
Invoke(entry, got, orig, form, checker, comment) ==
    LET fail == failOf(entry)
        r    == check(checkParams(fail, checker, got, comment))
    IN  /\ pc = "idle"
        /\ inv' = [entry |-> entry, got |-> got, orig |-> orig,
                   form |-> form, checker |-> checker, comment |-> comment]
        /\ tt' = IF fail = "Fatal"
                 THEN [testingT EXCEPT !.fatalBuf = r.failed]
                 ELSE [testingT EXCEPT !.errorBuf = r.failed]
        /\ ok' = r.ok
        /\ pc' = IF r.panicking THEN "panicked" ELSE "returned"
        /\ calls' = r.calls
        /\ verbose' = verbose
        /\ UNCHANGED envVars

----------------------------------------------------------------------------
(* Patch.  A destination is the name of a variable; tb.Cleanup appends to  *)
(* the cleanups of the test, which run last registered first once the test *)
(* has ended, however it ended.                                            *)

Dests == {"x", "y"}

PatchValues == {0, 1, 2}

NewTB == [phase |-> "running", cleanups |-> <<>>]

NoHist ==
    [last |-> [op |-> "none"], base |-> [d \in Dests |-> [patched |-> FALSE, v |-> 0]]]

\* The closure registered by Patch: it sets dest back to old.
restore(dest, old) == [dest |-> dest, old |-> old]

\* What the history keeps of a call Patch(tb, dest, value).
patched(dest, value) ==
    [last |-> [op |-> "Patch", dest |-> dest, value |-> value,
               before |-> mem[dest]],
     base |-> IF ~hist.base[dest].patched
              THEN [hist.base EXCEPT ![dest] = [patched |-> TRUE, v |-> mem[dest]]]
              ELSE hist.base]

\* Patch registering a cleanup that sets the destination to the new value.
Patch_keepsNew(dest, value) ==
    /\ tb.phase = "running"
    /\ Len(tb.cleanups) < MaxPatches
    /\ mem' = [mem EXCEPT ![dest] = value]
    /\ tb' = [tb EXCEPT !.cleanups = Append(@, restore(dest, value))]
    /\ hist' = patched(dest, value)
    /\ UNCHANGED <<checkVars, sr, runs>>

Patch(dest, value) ==
    /\ tb.phase = "running"
    /\ Len(tb.cleanups) < MaxPatches
    /\ LET old == mem[dest]
       IN  /\ mem' = [mem EXCEPT ![dest] = value]
           /\ tb' = [tb EXCEPT !.cleanups = Append(@, restore(dest, old))]
    /\ hist' = patched(dest, value)
    /\ UNCHANGED <<checkVars, sr, runs>>

\* The test itself assigns to a variable.
Assign(dest, value) ==
    /\ tb.phase = "running"
    /\ mem' = [mem EXCEPT ![dest] = value]
    /\ hist' = [hist EXCEPT !.last = [op |-> "assign"]]
    /\ UNCHANGED <<tb, checkVars, sr, runs>>

\* The test function returns, calls Fatal, or panics.
TestEnds ==
    /\ tb.phase = "running"
    /\ tb' = [tb EXCEPT !.phase =
                 IF tb.cleanups = <<>> THEN "done" ELSE "cleaning"]
    /\ hist' = [hist EXCEPT !.last = [op |-> "end"]]
    /\ UNCHANGED <<mem, checkVars, sr, runs>>

\* The testing package runs the cleanup registered last.
RunCleanup ==
    /\ tb.phase = "cleaning"
    /\ LET n == Len(tb.cleanups)
           f == tb.cleanups[n]
       IN  /\ mem' = [mem EXCEPT ![f.dest] = f.old]
           /\ tb' = [phase |-> IF n = 1 THEN "done" ELSE "cleaning",
                     cleanups |-> SubSeq(tb.cleanups, 1, n - 1)]
    /\ hist' = [hist EXCEPT !.last = [op |-> "cleanup"]]
    /\ UNCHANGED <<checkVars, sr, runs>>

----------------------------------------------------------------------------
(* qtsuite.Run.  A suite value is a struct with the field init; the suite  *)
(* handed to Run is a pointer to the first of the values in objs, and a    *)
(* subtest runs its methods on the value sv points to.  A method name is   *)
(* its sequence of characters.  log is the record the methods keep of      *)
(* their calls through a pointer all suite values share.                   *)

NoSuiteRun ==
    [objs |-> <<>>, given |-> 0, methods |-> <<>>, hasInit |-> FALSE,
     next |-> 1, at |-> "none", sv |-> 0, log |-> <<>>]

LowerCase == {"a", "b", "e", "s", "t"}

\* The method is a test: its name starts with Test, and what follows does
\* not start with a lowercase letter.
isTestMethod(m) ==
    /\ Len(m) >= 4
    /\ SubSeq(m, 1, 4) = <<"T", "e", "s", "t">>
    /\ (IF Len(m) = 4 THEN TRUE ELSE m[5] \notin LowerCase)

\* The subtest running on the value the suite points to.
subtestValue_noCopy(objs) == [objs |-> objs, sv |-> 1]

\* The value a subtest runs on: a new value, set to the one pointed to.
subtestValue(objs) ==
    [objs |-> Append(objs, objs[1]), sv |-> Len(objs) + 1]

call(name, init, sv) == [Name |-> name, Init |-> init, sv |-> sv]

\* Run skips a method that is not a test.
Run_Skip ==
    /\ sr.at = "loop"
    /\ sr.next <= Len(sr.methods)
    /\ ~isTestMethod(sr.methods[sr.next])
    /\ sr' = [sr EXCEPT !.next = @ + 1]
    /\ UNCHANGED <<checkVars, patchVars, runs>>

\* The subtest of a test method starts, and makes its suite value.
Run_Subtest ==
    /\ sr.at = "loop"
    /\ sr.next <= Len(sr.methods)
    /\ isTestMethod(sr.methods[sr.next])
    /\ LET v == subtestValue(sr.objs)
       IN  sr' = [sr EXCEPT !.objs = v.objs, !.sv = v.sv,
                            !.at = IF sr.hasInit THEN "init" ELSE "test"]
    /\ UNCHANGED <<checkVars, patchVars, runs>>

\* func (s *testSuite) Init(*testing.T): records the call, increments init.
Run_Init ==
    /\ sr.at = "init"
    /\ sr' = [sr EXCEPT
                !.log = Append(@, call(<<"I", "n", "i", "t">>,
                                       sr.objs[sr.sv].init, sr.sv)),
                !.objs[sr.sv].init = @ + 1,
                !.at = "test"]
    /\ UNCHANGED <<checkVars, patchVars, runs>>

\* The test method: it records the call, and a method whose name ends in M
\* has a pointer receiver and modifies the field.
Run_Test ==
    /\ sr.at = "test"
    /\ LET m == sr.methods[sr.next]
       IN  sr' = [sr EXCEPT
                    !.log = Append(@, call(m, sr.objs[sr.sv].init, sr.sv)),
                    !.objs[sr.sv].init =
                        IF m[Len(m)] = "M" THEN @ + 5 ELSE @,
                    !.at = "loop",
                    !.sv = 0,
                    !.next = @ + 1]
    /\ UNCHANGED <<checkVars, patchVars, runs>>

NoRuns == <<>>

(* Invocations of check running in goroutines of their own.  at is where   *)
(* an invocation is, checker the index of the checker instance it was      *)
(* given, rp the reportParams it made, n the number of notes its Check has *)
(* emitted so far, others the number of notes other invocations emitted    *)
(* meanwhile, and failed the reports it handed to p.fail.  notes holds     *)
(* rp.notes of every reportParams.                                         *)

NoRun ==
    [at |-> "idle", checker |-> 0, rp |-> 0, n |-> 0, others |-> 0,
     failed |-> <<>>]

\* One note buffer kept with the checker instance.
check_rp_ofChecker(g, k) == MaxRuns + k

\* The reportParams of an invocation: a local variable of check.
check_rp(g, k) == g

\* check is called with the k-th of the given checker instances: it makes
\* its reportParams, and the checker's Check starts.
check_Begin(cs, g, k) ==
    /\ runs.inv[g].at = "idle"
    /\ LET rp == check_rp(g, k)
       IN  runs' = [runs EXCEPT
                      !.inv[g] = [NoRun EXCEPT !.at = "checking",
                                               !.checker = k, !.rp = rp],
                      !.notes[rp] = <<>>]
    /\ UNCHANGED <<checkVars, patchVars, sr>>

\* The note function of the invocation is called by Check with its next
\* note.
check_note(cs, g) ==
    LET i == runs.inv[g]
    IN  /\ i.at = "checking"
        /\ LET r == Checker_Check(cs[i.checker], GoNil)
           IN  /\ i.n < Len(r.notes)
               /\ runs' = [runs EXCEPT
                      !.notes[i.rp] = Append(@, r.notes[i.n + 1]),
                      !.inv = [h \in DOMAIN runs.inv |->
                                 IF h = g THEN [i EXCEPT !.n = @ + 1]
                                 ELSE IF runs.inv[h].at = "checking"
                                 THEN [runs.inv[h] EXCEPT !.others = 1]
                                 ELSE runs.inv[h]]]
        /\ UNCHANGED <<checkVars, patchVars, sr>>

\* Check returns, and check reports the error if there is one.
check_Return(cs, g) ==
    LET i == runs.inv[g]
    IN  /\ i.at = "checking"
        /\ LET c  == cs[i.checker]
               r  == Checker_Check(c, GoNil)
               rp == [reportParams(GoNil) EXCEPT
                         !.args = Checker_Args(c),
                         !.paramNames = Checker_ParamNames(c),
                         !.notes = runs.notes[i.rp]]
           IN  /\ i.n = Len(r.notes)
               /\ runs' = [runs EXCEPT
                      !.inv[g].at = "done",
                      !.inv[g].failed = IF r.err # Nil
                                        THEN <<report(r.err, rp)>> ELSE <<>>]
        /\ UNCHANGED <<checkVars, patchVars, sr>>

\* The goroutine goes on to its next invocation.
check_Over(g) ==
    /\ runs.inv[g].at = "done"
    /\ runs' = [runs EXCEPT !.inv[g] = NoRun]
    /\ UNCHANGED <<checkVars, patchVars, sr>>

NoInv ==
    [entry |-> "none", got |-> GoNil, orig |-> NilChecker, form |-> "c",
     checker |-> NilChecker, comment |-> <<>>]

Init ==
    /\ inv = NoInv
    /\ tt = testingT
    /\ ok = FALSE
    /\ pc = "idle"
    /\ calls = NoCalls
    /\ verbose = FALSE
    /\ mem = [d \in Dests |-> 0]
    /\ tb = NewTB
    /\ hist = NoHist
    /\ sr = NoSuiteRun
    /\ runs = NoRuns

----------------------------------------------------------------------------
(* The entry points on the checkers of their own tests. *)

TestErrs ==
    {Nil, errors_New(<<"bad wolf">>), BadCheckf(<<"bad wolf">>), ErrSilent}

TestNotes ==
    {note("note1", StrVal(<<"these">>)), note("note2", Unquoted(<<"are">>))}

TestNoteSeqs == SeqsUpTo(TestNotes, MaxNotes)

TestComments == {<<>>, <<<<"bad wolf: 42">>>>, <<<<>>>>}

TestingCheckers ==
    {testingChecker(<<"got", "want">>, <<StrVal(<<"want">>)>>, ns, e) :
        ns \in TestNoteSeqs, e \in TestErrs}

qt_Assert ==
    /\ pc = "idle"
    /\ \E c \in TestingCheckers \cup {NilChecker}, cm \in TestComments :
          Invoke("Assert", IntVal("42"), c, "c", c, cm)

qt_Check ==
    /\ pc = "idle"
    /\ \E c \in TestingCheckers \cup {NilChecker}, cm \in TestComments :
          Invoke("Check", IntVal("42"), c, "c", c, cm)

Next == qt_Assert \/ qt_Check

Spec == Init /\ [][Next]_vars

----------------------------------------------------------------------------
(* The subtests of the checkers: each checker of a test case is handed to  *)
(* an entry point as it is, negated, and negated twice.                    *)

RunPlain(U) ==
    /\ pc = "idle"
    /\ \E e \in Entries, c \in U : Invoke(e, GoNil, c, "c", c, <<>>)

RunNot(U) ==
    /\ pc = "idle"
    /\ \E e \in Entries, c \in U :
          Invoke(e, GoNil, c, "Not(c)", Not(c), <<>>)

RunNotNot(U) ==
    /\ pc = "idle"
    /\ \E e \in Entries, c \in U :
          Invoke(e, GoNil, c, "Not(Not(c))", Not(Not(c)), <<>>)

(* Negation: checkers returning every kind of error, IsNil with its custom *)
(* negated-failure message, Equals, and the negations of all of these.     *)

TestingCheckers2 ==
    {testingChecker2(<<Arg("got", IntVal("42")), Arg("want", StrVal(<<"want">>))>>,
                     ns, e) :
        ns \in TestNoteSeqs, e \in TestErrs}

NilableTypes ==
    {"*int", "*errTest", "[]int", "map[string]string", "chan int", "func()"}

\* The values an interface can hold: a nil and a non-nil value of every
\* nilable type, an int and a struct.
DynValues ==
    {TypedNil(t) : t \in NilableTypes}
        \cup {[typ |-> t, v |-> "0xc000"] : t \in NilableTypes}
        \cup {IntVal("42"), [typ |-> "struct { Ints []int }", v |-> "{1}"]}

\* The well-typed calls IsNil[T](got): a value at its own type, any value
\* or nil as an any, an error or nil as an error.
IsNilSubjects ==
    {<<g.typ, g>> : g \in DynValues}
        \cup {<<"any", g>> : g \in DynValues \cup {GoNil}}
        \cup {<<"error", g>> :
                g \in {x \in DynValues : ImplementsError(x.typ)} \cup {GoNil}}

IsNilCheckers == {IsNilT(x[1], x[2]) : x \in IsNilSubjects}

NotBase ==
    TestingCheckers2 \cup IsNilCheckers
        \cup {Equals("int", IntVal("42"), IntVal("42")),
              Equals("int", IntVal("42"), IntVal("47"))}

NotCheckers == NotBase \cup {Not(c) : c \in NotBase}

Not_Plain == RunPlain(NotCheckers)

Not_Negated == RunNot(NotCheckers)

Not_Twice == RunNotNot(NotCheckers)

NextNot == Not_Plain \/ Not_Negated \/ Not_Twice

SpecNot == Init /\ [][NextNot]_vars

(* User code that panics: predicates of Satisfies, comparison options of   *)
(* CmpEquals, element-checker factories of the quantifiers, and Equals on  *)
(* interfaces holding values that cannot be compared.                      *)

Ints == {IntVal("42"), IntVal("47")}

IntsValue(n) == [typ |-> "struct { Ints []int }", v |-> n]

Anys == Ints \cup {IntsValue("{1}"), IntsValue("{2}"), GoNil}

SatisfiesCheckers ==
    {Satisfies(x, f) : x \in Ints, f \in [Ints -> {"true", "false", "panic"}]}

CmpEqualsCheckers ==
    {CmpEquals("int", x, y, o) : x \in Ints, y \in Ints, o \in {"none", "panics"}}

EqualsCheckers == {Equals("any", x, y) : x \in Anys, y \in Anys}

\* The items a slice iterator yields.
sliceItems(s) ==
    [i \in 1..Len(s) |->
        [key |-> <<"index ", ToString(i - 1)>>, value |-> s[i]]]

IntSlices == SeqsUpTo(Ints, MaxElems)

ZeroInt == IntVal("0")

\* The factories func(x int) Checker { return Equals(x, 42) } and
\* func(x int) Checker { return Satisfies(x, p) } with p panicking on 47,
\* made to panic on the elements of P.
Factories ==
    {[x \in Ints \cup {ZeroInt} |->
        IF x \in P THEN PanicFactory ELSE Equals("int", x, IntVal("42"))] :
            P \in SUBSET (Ints \cup {ZeroInt})}
    \cup
    {[x \in Ints \cup {ZeroInt} |->
        Satisfies(x, [y \in Ints \cup {ZeroInt} |->
                        IF y = IntVal("47") THEN "panic" ELSE "true"])]}

QuantifierCheckers ==
    {allChecker(sliceItems(s), [typ |-> "[]int", v |-> "s"], ZeroInt, f) :
        s \in IntSlices, f \in Factories}
    \cup
    {anyChecker(sliceItems(s), [typ |-> "[]int", v |-> "s"], ZeroInt, f) :
        s \in IntSlices, f \in Factories}

PanicCheckers ==
    SatisfiesCheckers \cup CmpEqualsCheckers \cup EqualsCheckers
        \cup QuantifierCheckers

Panic_Plain == RunPlain(PanicCheckers)

Panic_Negated == RunNot(PanicCheckers)

NextPanic == Panic_Plain \/ Panic_Negated

SpecPanic == Init /\ [][NextPanic]_vars

(* Pattern matching: every pattern string over the tokens, and every      *)
(* precompiled pattern (regexp.MustCompile accepts the valid sources       *)
(* only), against every short text.                                        *)

PatternTokens == {"a", "(", ")", "|"}

PatternSources == SeqsUpTo(PatternTokens, MaxPatLen)

Texts == SeqsUpTo({"a", "b"}, MaxStrLen)

Patterns ==
    {PatternString(r) : r \in PatternSources}
        \cup {Regexp(r) : r \in {x \in PatternSources : regexp_Valid(x)}}

ErrorValue(msg) == [typ |-> "*errors.errorString", v |-> msg]

Errors == {GoNil} \cup {ErrorValue(t) : t \in Texts}

\* func() {} and func() { panic(t) }
Funcs ==
    {[panics |-> FALSE, pval |-> <<>>]}
        \cup {[panics |-> TRUE, pval |-> t] : t \in Texts}

MatchCheckers ==
    {Matches(t, w) : t \in Texts, w \in Patterns}
        \cup {ErrorMatches(e, w) : e \in Errors, w \in Patterns}
        \cup {PanicMatches(f, w) : f \in Funcs, w \in Patterns}

Match_Plain == RunPlain(MatchCheckers)

Match_Negated == RunNot(MatchCheckers)

NextMatch == Match_Plain \/ Match_Negated

SpecMatch == Init /\ [][NextMatch]_vars

(* IsNil: the checker value of the API that passes the subject to Check,  *)
(* on every value an any can hold, and the generic IsNil[T], as it is and  *)
(* negated.                                                                *)

Nil_Value ==
    /\ pc = "idle"
    /\ \E e \in Entries, got \in DynValues \cup {GoNil} :
          Invoke(e, got, IsNil, "c", IsNil, <<>>)

Nil_Plain == RunPlain(IsNilCheckers)

Nil_Negated == RunNot(IsNilCheckers)

NextNil == Nil_Value \/ Nil_Plain \/ Nil_Negated

SpecNil == Init /\ [][NextNil]_vars

(* Implements: every value an any can hold against interface types and    *)
(* concrete types.                                                         *)

WantedTypes == {"error", "Fooer", "any", "int", "*errTest"}

ImplementsCheckers ==
    {Implements(I, g) : I \in WantedTypes, g \in DynValues \cup {GoNil}}

Impl_Plain == RunPlain(ImplementsCheckers)

Impl_Negated == RunNot(ImplementsCheckers)

NextImpl == Impl_Plain \/ Impl_Negated

SpecImpl == Init /\ [][NextImpl]_vars

(* The quantifiers over slices: the factory returns, for each element, a   *)
(* checker that passes, fails with an error, fails silently with notes of  *)
(* its own, or is a bad check.                                             *)

Outcomes == {"pass", "fail", "silent", "bad"}

\* The checker a factory returns for the element x, with the given outcome.
outcomeChecker(x, o) ==
    testingChecker2(
        <<Arg("got", x), Arg("want", IntVal("42"))>>,
        IF o = "silent"
        THEN <<note("error", Unquoted(<<"values are not deep equal">>)),
               note("got", x)>>
        ELSE IF o = "fail" THEN <<note("got type", Unquoted(<<x.v>>))>>
        ELSE IF o = "pass" THEN <<note("matched", x)>>
        ELSE <<>>,
        CASE o = "pass" -> Nil
          [] o = "fail" -> errors_New(<<"values are not equal">>)
          [] o = "silent" -> ErrSilent
          [] o = "bad" -> BadCheckf(<<"bad wolf">>))

OutcomeFactories ==
    {[x \in Ints \cup {ZeroInt} |->
        outcomeChecker(x, IF x = ZeroInt THEN "pass" ELSE v[x])] :
            v \in [Ints -> Outcomes]}

IntSliceValue(s) == [typ |-> "[]int", v |-> [i \in 1..Len(s) |-> s[i].v]]

SliceAll(s, f) == allChecker(sliceItems(s), IntSliceValue(s), ZeroInt, f)

SliceAny(s, f) == anyChecker(sliceItems(s), IntSliceValue(s), ZeroInt, f)

QuantCheckers ==
    {SliceAll(s, f) : s \in IntSlices, f \in OutcomeFactories}
        \cup {SliceAny(s, f) : s \in IntSlices, f \in OutcomeFactories}

Quant_Plain == RunPlain(QuantCheckers)

Quant_Negated == RunNot(QuantCheckers)

NextQuant == Quant_Plain \/ Quant_Negated

SpecQuant == Init /\ [][NextQuant]_vars

(* CodecEquals and JSONEquals: valid and invalid payloads, as a string or  *)
(* a byte slice, against values that marshal and one that does not, with   *)
(* json.Marshal and with a marshal function producing invalid bytes.       *)

Payloads == {<<"null">>, <<"1">>, <<"2">>, <<"{\"NotThere\": ">>}

CodecSubjects ==
    {[typ |-> t, v |-> b] : t \in {"string", "[]uint8"}, b \in Payloads}

CodecWants ==
    {GoNil, IntVal("1"), IntVal("2"),
     [typ |-> "json.RawMessage", v |-> <<"null">>],
     [typ |-> "jsonErrorMarshaler", v |-> "{}"]}

CodecCheckers ==
    {CodecEquals(g, w, m, "json.Unmarshal", o) :
        g \in CodecSubjects, w \in CodecWants,
        m \in {"json.Marshal", "bad marshal"}, o \in {"none", "panics"}}

Codec_Plain == RunPlain(CodecCheckers)

Codec_Negated == RunNot(CodecCheckers)

NextCodec == Codec_Plain \/ Codec_Negated

SpecCodec == Init /\ [][NextCodec]_vars

(* ErrorIs and ErrorAs: the nil error, leaf errors, and errors wrapping   *)
(* them once and twice, against every such error and every target type.   *)

targetErr == [typ |-> "*errTarget", v |-> <<"target">>]

otherErr == [typ |-> "*errors.errorString", v |-> <<"other error">>]

nonPtrErr == [typ |-> "errTargetNonPtr", v |-> <<"target">>]

ChainErrors ==
    LET leaves  == {targetErr, otherErr, nonPtrErr}
        wrapped == {WrapError("wrapped: ", e) : e \in leaves}
    IN  {GoNil} \cup leaves \cup wrapped
            \cup {WrapError("again: ", e) : e \in wrapped}

TargetTypes == {"*errTarget", "errTargetNonPtr", "struct {}", "error", "any"}

ErrorCheckers ==
    {ErrorIs(g, w) : g \in ChainErrors, w \in ChainErrors}
        \cup {ErrorAs(g, T) : g \in ChainErrors, T \in TargetTypes}

Err_Plain == RunPlain(ErrorCheckers)

Err_Negated == RunNot(ErrorCheckers)

NextErr == Err_Plain \/ Err_Negated

SpecErr == Init /\ [][NextErr]_vars

(* Equals on strings with and without line breaks, compared as strings   *)
(* and as interface values.                                               *)

Lines == SeqsUpTo({"a", "\n"}, MaxStrLen)

StringCheckers ==
    {Equals(T, StrVal(g), StrVal(w)) :
        T \in {"string", "any"}, g \in Lines, w \in Lines}

Str_Plain == RunPlain(StringCheckers)

Str_Negated == RunNot(StringCheckers)

NextStr == Str_Plain \/ Str_Negated

SpecStr == Init /\ [][NextStr]_vars

(* DeepEquals of both APIs on short and long values, under both settings *)
(* of the verbosity.                                                      *)

DeepValues ==
    {[typ |-> "[]any", v |-> s] : s \in SeqsUpTo({"cmpType", "42"}, MaxElems)}

DeepCheckers ==
    {CmpEquals("[]any", g, w, o) :
        g \in DeepValues, w \in DeepValues, o \in {"none", "panics"}}

\* The test sets the verbosity before it runs the subtest.
Deep_SetVerbose ==
    /\ pc = "idle"
    /\ verbose' = ~verbose
    /\ UNCHANGED <<inv, tt, ok, pc, calls>>
    /\ UNCHANGED envVars

\* The checker is built, and its verbosity set, before the entry point is
\* called with the subject.
Deep_Subject ==
    /\ pc = "idle"
    /\ \E e \in Entries, g \in DeepValues, w \in DeepValues :
          LET c == deepEqualsChecker(w, "none", verbose)
          IN  Invoke(e, g, c, "c", c, <<>>)

Deep_Plain == RunPlain(DeepCheckers)

Deep_Negated == RunNot(DeepCheckers)

NextDeep == Deep_SetVerbose \/ Deep_Subject \/ Deep_Plain \/ Deep_Negated

SpecDeep == Init /\ [][NextDeep]_vars

(* The reports of checkers with every error, notes in both orders,       *)
(* one to three parameters, with and without a comment.                   *)

ReportNotes ==
    {note("note1", StrVal(<<"these">>)), note("note2", Unquoted(<<"are">>)),
     note("note3", IntVal("42"))}

ReportNoteSeqs == SeqsUpTo(ReportNotes, MaxNotes)

ReportCheckers ==
    {testingChecker(<<"arg1", "arg2", "arg3">>,
                    <<StrVal(<<"val2">>), StrVal(<<"val3">>)>>, ns, e) :
        ns \in ReportNoteSeqs, e \in TestErrs}
    \cup {testingChecker(<<"got">>, <<>>, ns, e) :
            ns \in ReportNoteSeqs, e \in TestErrs}

ReportCheckers2 ==
    {testingChecker2(<<Arg("got", IntVal("42")), Arg("want", StrVal(<<"want">>))>>,
                     ns, e) :
        ns \in ReportNoteSeqs, e \in TestErrs}

Report_Subject ==
    /\ pc = "idle"
    /\ \E e \in Entries, c \in ReportCheckers \cup {NilChecker},
          cm \in TestComments :
          Invoke(e, IntVal("42"), c, "c", c, cm)

Report_Args ==
    /\ pc = "idle"
    /\ \E e \in Entries, c \in ReportCheckers2, cm \in TestComments :
          Invoke(e, GoNil, c, "c", c, cm)

NextReport == Report_Subject \/ Report_Args

SpecReport == Init /\ [][NextReport]_vars

(* Bad checks: the checkers of the report tests, and PanicMatches with   *)
(* patterns that compile and patterns that do not.                        *)

BadPatternCheckers ==
    {PanicMatches(f, PatternString(r)) :
        f \in Funcs, r \in {<<"a">>, <<"(">>, <<"a", ")">>}}

Bad_Pattern ==
    /\ pc = "idle"
    /\ \E e \in Entries, c \in BadPatternCheckers, cm \in TestComments :
          Invoke(e, GoNil, c, "c", c, cm)

NextBad == Report_Subject \/ Report_Args \/ Bad_Pattern

SpecBad == Init /\ [][NextBad]_vars

(* Reports with repeated values: notes and arguments whose values are    *)
(* equal, or differ and render alike.                                     *)

SameValues ==
    {StrVal(<<"value1">>), Unquoted(<<"\"", "value1", "\"">>), IntVal("42"),
     GoNil}

noteKeys == <<"note1", "note2", "note3", "note4">>

SameNoteSeqs ==
    {[i \in 1..Len(vs) |-> note(noteKeys[i], vs[i])] :
        vs \in SeqsUpTo(SameValues, MaxNotes)}

Same_Subject ==
    /\ pc = "idle"
    /\ \E e \in Entries, ns \in SameNoteSeqs, a \in SameValues, b \in SameValues :
          LET c == testingChecker(<<"arg1", "arg2">>, <<b>>, ns,
                                  errors_New(<<"bad wolf">>))
          IN  Invoke(e, a, c, "c", c, <<>>)

Same_Args ==
    /\ pc = "idle"
    /\ \E e \in Entries, ns \in SameNoteSeqs, a \in SameValues, b \in SameValues :
          LET c == testingChecker2(<<Arg("arg1", a), Arg("arg2", b)>>, ns,
                                   errors_New(<<"bad wolf">>))
          IN  Invoke(e, GoNil, c, "c", c, <<>>)

NextSame == Same_Subject \/ Same_Args

SpecSame == Init /\ [][NextSame]_vars

(* Failing assertions given zero or more comments, empty or not.        *)

CommentTexts == {<<>>, <<"bad wolf: 42">>, <<"second comment">>}

CommentLists == SeqsUpTo(CommentTexts, MaxComments)

Comment_Subject ==
    /\ pc = "idle"
    /\ \E c \in ReportCheckers, cms \in CommentLists :
          \/ Invoke("Assert", IntVal("42"), c, "c", c, cms)
          \/ Invoke("Check", IntVal("42"), c, "c", c, cms)

NextComment == Comment_Subject

SpecComment == Init /\ [][NextComment]_vars

(* A test patching its variables, from every initial value of them.      *)

InitPatch ==
    /\ inv = NoInv
    /\ tt = testingT
    /\ ok = FALSE
    /\ pc = "idle"
    /\ calls = NoCalls
    /\ verbose = FALSE
    /\ mem \in [Dests -> PatchValues]
    /\ tb = NewTB
    /\ hist = NoHist
    /\ sr = NoSuiteRun
    /\ runs = NoRuns

Patch_Call == \E d \in Dests, v \in PatchValues : Patch(d, v)

Patch_Assign == \E d \in Dests, v \in PatchValues : Assign(d, v)

NextPatch == Patch_Call \/ Patch_Assign \/ TestEnds \/ RunCleanup

SpecPatch == InitPatch /\ [][NextPatch]_vars

(* qtsuite.Run on a pointer to a suite with any of five methods, with   *)
(* and without Init.                                                      *)

SuiteMethods ==
    << <<"T", "e", "s", "t">>, <<"T", "e", "s", "t", "1">>,
       <<"T", "e", "s", "t", "4", "M">>, <<"T", "e", "s", "t", "M">>,
       <<"T", "e", "s", "t", "a">> >>

\* The methods of a type, sorted by name as reflect lists them.
MethodLists ==
    {SelectSeq(SuiteMethods, LAMBDA m : m \in S) :
        S \in SUBSET {SuiteMethods[i] : i \in 1..Len(SuiteMethods)}}

InitSuite ==
    /\ inv = NoInv
    /\ tt = testingT
    /\ ok = FALSE
    /\ pc = "idle"
    /\ calls = NoCalls
    /\ verbose = FALSE
    /\ mem = [d \in Dests |-> 0]
    /\ tb = NewTB
    /\ hist = NoHist
    /\ runs = NoRuns
    /\ \E ms \in MethodLists, h \in BOOLEAN, n \in {0, 1} :
          sr = [objs |-> <<[init |-> n]>>, given |-> n, methods |-> ms,
                hasInit |-> h, next |-> 1, at |-> "loop", sv |-> 0,
                log |-> <<>>]

NextSuite == Run_Skip \/ Run_Subtest \/ Run_Init \/ Run_Test

SpecSuite == InitSuite /\ [][NextSuite]_vars

(* Invocations side by side, each on one of three checker instances they *)
(* share: two that emit notes and fail, and All over a slice.             *)

SharedCheckers ==
    << outcomeChecker(IntVal("47"), "silent"),
       outcomeChecker(IntVal("47"), "fail"),
       SliceAll(<<IntVal("42"), IntVal("47")>>,
                [x \in Ints \cup {ZeroInt} |->
                    outcomeChecker(x, IF x = IntVal("47") THEN "silent"
                                      ELSE "pass")]),
       outcomeChecker(IntVal("42"), "pass") >>

InitConc ==
    /\ inv = NoInv
    /\ tt = testingT
    /\ ok = FALSE
    /\ pc = "idle"
    /\ calls = NoCalls
    /\ verbose = FALSE
    /\ mem = [d \in Dests |-> 0]
    /\ tb = NewTB
    /\ hist = NoHist
    /\ sr = NoSuiteRun
    /\ runs = [inv   |-> [g \in 1..MaxRuns |-> NoRun],
               notes |-> [b \in 1..(MaxRuns + Len(SharedCheckers)) |-> <<>>]]

Conc_Begin ==
    \E g \in 1..MaxRuns, k \in 1..Len(SharedCheckers) :
        check_Begin(SharedCheckers, g, k)

Conc_Note == \E g \in 1..MaxRuns : check_note(SharedCheckers, g)

Conc_Return == \E g \in 1..MaxRuns : check_Return(SharedCheckers, g)

Conc_Over == \E g \in 1..MaxRuns : check_Over(g)

NextConc == Conc_Begin \/ Conc_Note \/ Conc_Return \/ Conc_Over

SpecConc == InitConc /\ [][NextConc]_vars

(* Quantifiers over a slice of slices: the factory of the outer one      *)
(* returns, for each row, All or Any over the row, negated or not, with a *)
(* factory that gives each element a passing, failing or bad-check        *)
(* checker.                                                               *)

Rows ==
    {<<>>, <<IntVal("42")>>, <<IntVal("47")>>,
     <<IntVal("42"), IntVal("47")>>, <<IntVal("47"), IntVal("42")>>}

RowValues == {IntSliceValue(r) : r \in Rows}

rowOf(v) == CHOOSE r \in Rows : IntSliceValue(r) = v

LeafFactories ==
    {[x \in Ints \cup {ZeroInt} |->
        outcomeChecker(x, IF x = ZeroInt THEN "pass" ELSE v[x])] :
            v \in [Ints -> {"pass", "fail", "bad"}]}

\* func(row []int) Checker { return All(row, f) }, and the like.
RowFactories ==
    {[v \in RowValues |->
        LET q == IF k = "all" THEN SliceAll(rowOf(v), f)
                 ELSE SliceAny(rowOf(v), f)
        IN  IF n THEN Not(q) ELSE q] :
            k \in {"all", "any"}, n \in BOOLEAN, f \in LeafFactories}

rowItems(rs) ==
    [i \in 1..Len(rs) |->
        [key |-> <<"index ", ToString(i - 1)>>, value |-> IntSliceValue(rs[i])]]

RowsValue(rs) == [typ |-> "[][]int", v |-> [i \in 1..Len(rs) |-> rs[i]]]

NestCheckers ==
    {allChecker(rowItems(rs), RowsValue(rs), IntSliceValue(<<>>), f) :
        rs \in SeqsUpTo(Rows, MaxElems), f \in RowFactories}
    \cup
    {anyChecker(rowItems(rs), RowsValue(rs), IntSliceValue(<<>>), f) :
        rs \in SeqsUpTo(Rows, MaxElems), f \in RowFactories}

Nest_Plain == RunPlain(NestCheckers)

Nest_Negated == RunNot(NestCheckers)

NextNest == Nest_Plain \/ Nest_Negated

SpecNest == Init /\ [][NextNest]_vars

(* The quantifiers over maps from strings to integers, visited in any    *)
(* order of their keys.                                                   *)

MapKeys == {<<"a", "b", "c">>[i] : i \in 1..MaxElems}

IntMaps == UNION {[S -> Ints] : S \in SUBSET MapKeys}

\* The orders in which MapRange may visit the keys of S.
Orders(S) ==
    {p \in [1..Cardinality(S) -> S] :
        \A i, j \in 1..Cardinality(S) : p[i] = p[j] => i = j}

IntMapValue(m) ==
    [typ |-> "map[string]int", v |-> [k \in DOMAIN m |-> m[k].v]]

MapAll(m, order, f) ==
    allChecker(newMapIter(m, order), IntMapValue(m), ZeroInt, f)

MapAny(m, order, f) ==
    anyChecker(newMapIter(m, order), IntMapValue(m), ZeroInt, f)

MapCheckers ==
    UNION {{MapAll(m, p, f) : p \in Orders(DOMAIN m), f \in OutcomeFactories}
             \cup
           {MapAny(m, p, f) : p \in Orders(DOMAIN m), f \in OutcomeFactories} :
              m \in IntMaps}

Map_Plain == RunPlain(MapCheckers)

Map_Negated == RunNot(MapCheckers)

NextMap == Map_Plain \/ Map_Negated

SpecMap == Init /\ [][NextMap]_vars

----------------------------------------------------------------------------
(* Properties of the entry points. *)

\* The buffer written by the fail primitive of the entry point called, and
\* the buffer of the other primitive.
ownBuf == IF inv.entry = "Assert" THEN tt.fatalBuf ELSE tt.errorBuf

otherBuf == IF inv.entry = "Assert" THEN tt.errorBuf ELSE tt.fatalBuf

\* The report the invocation is expected to hand over for the error err
\* when the check emitted the given notes.
expectedReport(err, notes) ==
    report(err, [reportParams(inv.got) EXCEPT
                    !.args = Checker_Args(inv.checker),
                    !.paramNames = Checker_ParamNames(inv.checker),
                    !.comment = IF Len(inv.comment) > 0
                                THEN inv.comment[1] ELSE NoComment,
                    !.notes = notes])

C2_NilChecker ==
    (inv.entry # "none" /\ inv.checker.kind = "nil") =>
      /\ pc = "returned"
      /\ ~ok
      /\ calls = NoCalls
      /\ Len(ownBuf) = 1
      /\ ownBuf[1].error = <<"bad check: ", "nil checker provided">>
      /\ otherBuf = <<>>

C2_Witness ==
    /\ inv.entry = "Check"
    /\ inv.checker.kind = "nil"
    /\ ~ok
    /\ Len(tt.errorBuf) = 1

----------------------------------------------------------------------------
(* Properties of Not. *)

\* What the checker of the test case returns, and what its negation returns.
origResult == Checker_Check(inv.orig, inv.got)

notResult == Checker_Check(Not(inv.orig), inv.got)

\* C3: when c.Check returns a bad-check error, Not(c).Check returns that
\* same error, and the assertion fails with the report of the bad check,
\* through the entry point's own fail primitive, for c and for Not(c)
\* alike.
C3_BadCheckNotNegated ==
    (inv.entry # "none" /\ inv.orig.kind # "nil" /\ ~origResult.panicking
        /\ IsBadCheck(origResult.err)) =>
      /\ notResult.err = origResult.err
      /\ ~notResult.panicking
      /\ pc = "returned"
      /\ ~ok
      /\ ownBuf = <<expectedReport(origResult.err, origResult.notes)>>
      /\ otherBuf = <<>>

C3_Witness ==
    /\ inv.form = "Not(c)"
    /\ inv.checker.kind = "notChecker"
    /\ inv.orig.kind = "testingChecker2"
    /\ inv.orig.err = BadCheckf(<<"bad wolf">>)
    /\ ~ok
    /\ Len(ownBuf) = 1
    /\ ownBuf[1].error = <<"bad check: ", "bad wolf">>

\* The error Not(c).Check is said to return when c.Check returns nil.
negatedFailure(c) ==
    IF c.kind = "isNilCheckerT"
    THEN IF c.got.typ = "nil"
         THEN errors_New(<<"got <nil> but want non-nil">>)
         ELSE errors_New(<<"got nil ", KindOf(c.got.typ), " but want non-nil">>)
    ELSE errors_New(<<"unexpected success">>)

\* The same with the message of IsNil as the claim words it: the kind of
\* the subject is always named.
negatedFailureByKind(c) ==
    IF c.kind = "isNilCheckerT"
    THEN errors_New(<<"got nil ", KindOf(c.got.typ), " but want non-nil">>)
    ELSE errors_New(<<"unexpected success">>)

\* C4 as stated: for every checker c, Not(c).Check returns nil exactly when
\* c.Check returns a non-nil error that is not a bad check, and when
\* c.Check returns nil it returns "unexpected success" or, for IsNil,
\* "got nil <kind> but want non-nil".
C4_Original ==
    (inv.form = "Not(c)" /\ ~origResult.panicking) =>
      /\ (notResult.err = Nil) <=>
            (origResult.err # Nil /\ ~IsBadCheck(origResult.err))
      /\ origResult.err = Nil => notResult.err = negatedFailureByKind(inv.orig)

\* C4: for a checker c that is not itself built by Not, Not(c).Check
\* returns nil exactly when c.Check returns a non-nil error that is not a
\* bad check (the silent error included), and the assertion on Not(c) then
\* passes; when c.Check returns nil, Not(c).Check returns "unexpected
\* success", or for IsNil "got nil <kind> but want non-nil" ("got <nil> but
\* want non-nil" when the subject is the nil interface), and the assertion
\* fails with that error.  When c is Not(d), Not(c) is d and returns what d
\* returns.
C4_Negation ==
    (inv.form = "Not(c)" /\ ~origResult.panicking) =>
      IF inv.orig.kind = "notChecker"
      THEN /\ inv.checker = inv.orig.Checker
           /\ notResult = Checker_Check(inv.orig.Checker, inv.got)
      ELSE /\ (notResult.err = Nil) <=>
                 (origResult.err # Nil /\ ~IsBadCheck(origResult.err))
           /\ (notResult.err = Nil) <=> ok
           /\ origResult.err = Nil =>
                 /\ notResult.err = negatedFailure(inv.orig)
                 /\ ownBuf = <<expectedReport(negatedFailure(inv.orig),
                                              origResult.notes)>>

C4_Witness ==
    /\ inv.form = "Not(c)"
    /\ inv.orig = IsNilT("*int", TypedNil("*int"))
    /\ ~ok
    /\ Len(ownBuf) = 1
    /\ ownBuf[1].error = <<"got nil ", "ptr", " but want non-nil">>

\* The silent error is negated into a pass like any other failure.
C4_WitnessSilent ==
    /\ inv.form = "Not(c)"
    /\ inv.orig.kind = "testingChecker2"
    /\ inv.orig.err = ErrSilent
    /\ ok

\* C5: Not(Not(c)) is c: handed to an entry point it returns the verdict,
\* the error and the notes of c, reports the Args of c, and makes the
\* assertion pass or fail with exactly the report that c makes, so that a
\* custom negated-failure message of c never shows.
C5_DoubleNegation ==
    (inv.form = "Not(Not(c))") =>
      /\ inv.checker = inv.orig
      /\ Checker_Check(inv.checker, inv.got) = origResult
      /\ Checker_Args(inv.checker) = Checker_Args(inv.orig)
      /\ pc = "returned"
      /\ IF origResult.err = Nil
         THEN ok /\ ownBuf = <<>>
         ELSE /\ ~ok
              /\ ownBuf = <<report(origResult.err,
                              [reportParams(inv.got) EXCEPT
                                  !.args = Checker_Args(inv.orig),
                                  !.notes = origResult.notes])>>
      /\ otherBuf = <<>>

C5_Witness ==
    /\ inv.form = "Not(Not(c))"
    /\ inv.orig = IsNilT("*int", TypedNil("*int"))
    /\ ok
    /\ ownBuf = <<>>

\* A failure of c is reported by Not(Not(c)) as c reports it.
C5_WitnessFailure ==
    /\ inv.form = "Not(Not(c))"
    /\ inv.orig = Equals("int", IntVal("42"), IntVal("47"))
    /\ ~ok
    /\ Len(ownBuf) = 1
    /\ ownBuf[1].error = <<"values are not equal">>

----------------------------------------------------------------------------
(* Properties of panics raised under a checker. *)

\* What the factory and the element checker do on the i-th item of the
\* quantifier c.
elemPanics(c, i) ==
    LET checker == c.elemChecker[c.items[i].value]
    IN  \/ checker.kind = "panic"
        \/ Checker_Check(checker, GoNil).panicking

elemVerdict(c, i) == Checker_Check(c.elemChecker[c.items[i].value], GoNil).err

\* Whether the loop of the quantifier goes on after the i-th item.
elemContinues(c, i) ==
    /\ ~elemPanics(c, i)
    /\ IF c.kind = "allChecker"
       THEN elemVerdict(c, i) = Nil
       ELSE elemVerdict(c, i) # Nil /\ ~IsBadCheck(elemVerdict(c, i))

\* Whether user code panics when the checker is used by an entry point.
userPanics(c) ==
    CASE c.kind = "satisfiesChecker" -> c.predicate[c.got] = "panic"
      [] c.kind = "cmpEqualsChecker" -> c.opts = "panics"
      [] c.kind \in {"allChecker", "anyChecker"} ->
            \/ c.elemChecker[c.zero].kind = "panic"
            \/ \E i \in 1..Len(c.items) :
                  /\ elemPanics(c, i)
                  /\ \A j \in 1..(i - 1) : elemContinues(c, j)
      [] OTHER -> FALSE

C6_WitnessSatisfies ==
    /\ inv.orig.kind = "satisfiesChecker"
    /\ inv.orig.predicate[inv.orig.got] = "panic"
    /\ pc = "panicked"

\* The panic of a factory leaves the entry point from the loop of Check.
C6_WitnessFactory ==
    /\ inv.orig.kind = "allChecker"
    /\ inv.orig.elemChecker[ZeroInt].kind # "panic"
    /\ Len(inv.orig.items) = 2
    /\ inv.orig.elemChecker[inv.orig.items[2].value].kind = "panic"
    /\ calls.Check = 1
    /\ pc = "panicked"

\* The panic of a factory on the zero value leaves the entry point when
\* Args is taken, whatever the container holds.
C6_WitnessArgs ==
    /\ inv.orig.kind = "anyChecker"
    /\ inv.orig.elemChecker[ZeroInt].kind = "panic"
    /\ inv.orig.items = <<>>
    /\ calls.Check = 0
    /\ pc = "panicked"

\* C7 as stated: when the comparison of got and want panics inside Equals,
\* Check returns a bad-check error and the assertion fails, negated or not.
C7_Original ==
    (inv.entry # "none" /\ inv.orig.kind = "equalsChecker"
        /\ uncomparable(inv.orig.got, inv.orig.want)) =>
      /\ pc = "returned"
      /\ IsBadCheck(origResult.err)
      /\ ~ok

\* C7: when the comparison of got and want panics inside Equals, the panic
\* is recovered and Check returns an ordinary error carrying the message of
\* the panic, not a bad check: the assertion on Equals fails with that
\* error and the got and want arguments, the assertion on Not(Equals)
\* passes, and the panic never reaches the caller.
C7_EqualsUncomparable ==
    (inv.entry # "none" /\ inv.orig.kind = "equalsChecker"
        /\ uncomparable(inv.orig.got, inv.orig.want)) =>
      /\ pc = "returned"
      /\ origResult.err =
            errors_New(<<"runtime error: comparing uncomparable type ",
                         inv.orig.got.typ>>)
      /\ ~IsBadCheck(origResult.err)
      /\ inv.form = "c" =>
            /\ ~ok
            /\ Len(ownBuf) = 1
            /\ ownBuf[1].error = origResult.err.msg
            /\ Len(ownBuf[1].args) = 2
            /\ otherBuf = <<>>
      /\ inv.form = "Not(c)" => (ok /\ tt = testingT)

C7_Witness ==
    /\ inv.orig = Equals("any", IntsValue("{1}"), IntsValue("{2}"))
    /\ inv.form = "c"
    /\ pc = "returned"
    /\ ~ok
    /\ Len(ownBuf) = 1

\* The negation of the same check passes.
C7_WitnessNot ==
    /\ inv.orig = Equals("any", IntsValue("{1}"), IntsValue("{1}"))
    /\ inv.form = "Not(c)"
    /\ pc = "returned"
    /\ ok

----------------------------------------------------------------------------
(* Properties of the pattern matchers. *)

IsMatchChecker(c) ==
    c.kind \in {"matchesChecker", "errorMatchesChecker", "panicMatchesChecker"}

\* Whether the checker has a subject text to hand to its matcher: the
\* error is not nil, the function panics.
consulted(c) ==
    CASE c.kind = "matchesChecker" -> TRUE
      [] c.kind = "errorMatchesChecker" -> c.got.typ # "nil"
      [] c.kind = "panicMatchesChecker" -> c.got.panics

subjectText(c) ==
    CASE c.kind = "matchesChecker" -> c.got
      [] c.kind = "errorMatchesChecker" -> c.got.v
      [] c.kind = "panicMatchesChecker" -> c.got.pval

\* The whole text matches the pattern; some part of the text does.
wholeMatch(p, s) == regexp_MatchAt(p, s, 0, Len(s))

partMatch(p, s) ==
    \E i \in 0..Len(s) : \E j \in i..Len(s) : regexp_MatchAt(p, s, i, j)

anchored(r) == <<"^", "(">> \o r \o <<")", "$">>

C8_WitnessString ==
    /\ inv.orig = Matches(<<"a", "b">>, PatternString(<<"a">>))
    /\ inv.form = "c"
    /\ ~ok
    /\ Len(ownBuf) = 1
    /\ ownBuf[1].error = <<"value does not match regexp">>

\* C9 as stated: a pattern string that is not a valid pattern yields the
\* bad check "cannot compile regexp" with the pattern as a "regexp" note,
\* whatever the subject is, and the assertion fails, negated or not.
C9_Original ==
    (inv.entry # "none" /\ IsMatchChecker(inv.orig)
        /\ inv.orig.want.kind = "string"
        /\ ~regexp_Valid(inv.orig.want.src)) =>
      /\ pc = "returned"
      /\ IsBadCheck(origResult.err)
      /\ \E i \in 1..Len(origResult.notes) :
            origResult.notes[i] = note("regexp", StrVal(inv.orig.want.src))
      /\ ~ok

\* C9: a pattern string r for which "^(" + r + ")$" does not compile
\* yields, whenever the checker has a subject text to match (always for
\* Matches, a non-nil error for ErrorMatches, a panicking function for
\* PanicMatches), the bad check "cannot compile regexp" with r as a
\* "regexp" note, and the assertion fails, negated or not.  ErrorMatches
\* on a nil error and PanicMatches on a function that does not panic fail
\* with an ordinary error before the pattern is looked at, so that their
\* negation passes.  A string that compiles once wrapped is no bad check.
C9_InvalidPattern ==
    (inv.entry # "none" /\ IsMatchChecker(inv.orig)
        /\ inv.orig.want.kind = "string") =>
      LET r == inv.orig.want.src
      IN  /\ pc = "returned"
          /\ IF regexp_Valid(anchored(r))
             THEN ~IsBadCheck(origResult.err)
             ELSE IF consulted(inv.orig)
             THEN /\ origResult.err =
                        BadCheckf(<<"cannot compile regexp: ">> \o anchored(r))
                  /\ \E i \in 1..Len(origResult.notes) :
                        origResult.notes[i] = note("regexp", StrVal(r))
                  /\ ~ok
                  /\ Len(ownBuf) = 1
                  /\ ownBuf[1].error
                        = <<"bad check: ", "cannot compile regexp: ">>
                            \o anchored(r)
                  /\ \E i \in 1..Len(ownBuf[1].notes) :
                        ownBuf[1].notes[i].key = "regexp"
                  /\ otherBuf = <<>>
             ELSE /\ origResult.err =
                        errors_New(<<IF inv.orig.kind = "errorMatchesChecker"
                                     THEN "got nil error but want non-nil"
                                     ELSE "function did not panic">>)
                  /\ inv.form = "c" => ~ok
                  /\ inv.form = "Not(c)" => ok

C9_Witness ==
    /\ inv.orig = Matches(<<"a">>, PatternString(<<"(">>))
    /\ inv.form = "Not(c)"
    /\ ~ok
    /\ Len(ownBuf) = 1
    /\ ownBuf[1].error[1] = "bad check: "

\* The negation of ErrorMatches on a nil error passes with a pattern that
\* does not compile.
C9_WitnessNilError ==
    /\ inv.orig = ErrorMatches(GoNil, PatternString(<<"(">>))
    /\ inv.form = "Not(c)"
    /\ ok

\* A string that is no valid pattern, but compiles once wrapped.
C9_WitnessWrapped ==
    /\ inv.orig = Matches(<<"a">>, PatternString(<<")", "|", "(">>))
    /\ inv.form = "c"
    /\ ok

----------------------------------------------------------------------------
(* Properties of IsNil. *)

\* The subject of the invocation of an IsNil checker, as the value an
\* interface holds.
nilSubject == IF inv.checker.kind = "isNilChecker" THEN inv.got ELSE inv.orig.got

IsNilInvoked ==
    inv.entry # "none" /\ inv.form = "c"
        /\ inv.checker.kind \in {"isNilChecker", "isNilCheckerT"}

\* The untyped nil, or a nil value of a nilable kind.
holdsNil(g) == g = GoNil \/ (canBeNil(KindOf(g.typ)) /\ g.v = "nil")

\* A value implementing the error interface whose concrete value is nil.
nilError(g) == g # GoNil /\ ImplementsError(g.typ) /\ g.v = "nil"

\* Whether the report of the failure refers to the nil-error pitfall.
refersToPitfall(rep) ==
    \E i \in 1..Len(rep.error) :
        rep.error[i] = ". See https://golang.org/doc/faq#nil_error"

C10_WitnessInterface ==
    /\ inv.checker = IsNilT("error", TypedNil("*errTest"))
    /\ inv.form = "c"
    /\ ~ok
    /\ Len(ownBuf) = 1
    /\ ownBuf[1].error = <<"got non-nil value">>

\* The generic IsNil on a nil pointer implementing error succeeds.
C10_WitnessPointer ==
    /\ inv.checker = IsNilT("*errTest", TypedNil("*errTest"))
    /\ inv.form = "c"
    /\ ok

----------------------------------------------------------------------------
(* Properties of Implements. *)

ImplementsInvoked == inv.entry # "none" /\ inv.orig.kind = "implementsChecker"

\* C11 as stated: with a wanted type that is no interface type Implements
\* is a bad check whatever the subject is; with an interface type a nil
\* subject is the failure "got nil value but want non-nil", no bad check.
C11_Original ==
    ImplementsInvoked =>
      IF KindOf(inv.orig.want) # "interface"
      THEN IsBadCheck(origResult.err) /\ ~ok
      ELSE inv.orig.got = GoNil =>
             /\ origResult.err # Nil
             /\ ~IsBadCheck(origResult.err)

\* C11: Implements tests the subject first: a nil subject is the failure
\* "got nil value but want non-nil", reported silently through an "error"
\* note, whatever the wanted type is, so that its negation passes; on a
\* subject that is not nil, a wanted type that is no interface type is the
\* bad check "want an interface type but a concrete type was provided",
\* and the assertion fails, negated or not.
C11_Implements ==
    ImplementsInvoked =>
      /\ pc = "returned"
      /\ IF inv.orig.got = GoNil
         THEN /\ origResult.err = ErrSilent
              /\ origResult.notes[1] =
                    note("error", Unquoted(<<"got nil value but want non-nil">>))
              /\ inv.form = "c" =>
                    /\ ~ok
                    /\ Len(ownBuf) = 1
                    /\ ownBuf[1].error = <<>>
                    /\ ownBuf[1].notes[1] =
                          [key |-> "error",
                           text |-> <<"got nil value but want non-nil">>]
              /\ inv.form = "Not(c)" => ok
         ELSE KindOf(inv.orig.want) # "interface" =>
              /\ IsBadCheck(origResult.err)
              /\ ~ok
              /\ Len(ownBuf) = 1
              /\ ownBuf[1].error =
                    <<"bad check: ",
                      "want an interface type but a concrete type was provided">>
              /\ otherBuf = <<>>

C11_Witness ==
    /\ inv.orig = Implements("int", GoNil)
    /\ inv.form = "c"
    /\ ~ok
    /\ Len(ownBuf) = 1
    /\ ownBuf[1].error = <<>>

\* The bad check on a subject that is not nil.
C11_WitnessBadCheck ==
    /\ inv.orig = Implements("int", IntVal("42"))
    /\ inv.form = "Not(c)"
    /\ ~ok
    /\ Len(ownBuf) = 1
    /\ ownBuf[1].error[1] = "bad check: "

----------------------------------------------------------------------------
(* Properties of the quantifiers. *)

AnyInvoked == inv.entry # "none" /\ inv.orig.kind = "anyChecker"

AllInvoked == inv.entry # "none" /\ inv.orig.kind = "allChecker"

\* The positions of the container of the quantifier c.
positions(c) == 1..Len(c.items)

elemPasses(c, i) == elemVerdict(c, i) = Nil

elemBadCheck(c, i) == IsBadCheck(elemVerdict(c, i))

\* The error of a quantifier for the bad check of the i-th element.
badCheckAt(c, i) ==
    BadCheckf(<<"at ">> \o c.items[i].key \o <<": ">>
              \o errorText(elemVerdict(c, i)))

\* C12 as stated: Any succeeds iff at least one element satisfies the
\* checker, and otherwise fails with "no matching element found".
C12_Original ==
    (AnyInvoked /\ inv.form = "c") =>
      /\ ok <=> (\E i \in positions(inv.orig) : elemPasses(inv.orig, i))
      /\ ~ok => (Len(ownBuf) = 1
                 /\ ownBuf[1].error = <<"no matching element found">>)

\* C12: Any succeeds iff some element satisfies the checker and the check
\* of no element before the first such element is a bad check.  When the
\* check of an element is a bad check and no element before it satisfies
\* the checker, Any is the bad check "at <key>: ..." and the assertion
\* fails, negated or not.  Otherwise Any fails with "no matching element
\* found", in particular on an empty container.
C12_Any ==
    AnyInvoked =>
      LET c       == inv.orig
          hit(i)  == elemPasses(c, i)
                       /\ \A j \in 1..(i - 1) : ~elemBadCheck(c, j)
          bad(i)  == elemBadCheck(c, i)
                       /\ \A j \in 1..(i - 1) :
                             ~elemPasses(c, j) /\ ~elemBadCheck(c, j)
      IN  /\ pc = "returned"
          /\ (origResult.err = Nil) <=> (\E i \in positions(c) : hit(i))
          /\ \A i \in positions(c) : bad(i) =>
                /\ origResult.err = badCheckAt(c, i)
                /\ ~ok
                /\ ownBuf[1].error = errorText(badCheckAt(c, i))
          /\ (\A i \in positions(c) : ~hit(i) /\ ~bad(i)) =>
                origResult.err = errors_New(<<"no matching element found">>)
          /\ inv.form = "c" =>
                /\ ok <=> (origResult.err = Nil)
                /\ ~ok => ownBuf = <<expectedReport(origResult.err, <<>>)>>
          /\ inv.form = "Not(c)" =>
                (ok <=> (origResult.err
                            = errors_New(<<"no matching element found">>)))

\* An element satisfies the checker, but the check of the element before
\* it is a bad check.
C12_Witness ==
    /\ AnyInvoked
    /\ inv.form = "c"
    /\ Len(inv.orig.items) = 2
    /\ elemBadCheck(inv.orig, 1)
    /\ elemPasses(inv.orig, 2)
    /\ ~ok
    /\ ownBuf[1].error =
          <<"bad check: ", "at ", "index ", "0", ": ", "bad check: ", "bad wolf">>

C12_WitnessEmpty ==
    /\ AnyInvoked
    /\ inv.form = "c"
    /\ inv.orig.items = <<>>
    /\ ~ok
    /\ ownBuf[1].error = <<"no matching element found">>

C12_WitnessMatch ==
    /\ AnyInvoked
    /\ inv.form = "c"
    /\ Len(inv.orig.items) = 2
    /\ ~elemPasses(inv.orig, 1)
    /\ elemPasses(inv.orig, 2)
    /\ ok

\* The keys of the first n elements of the quantifier c, in index order.
keysUpTo(c, n) == [i \in 1..n |-> c.items[i].key]

\* Whether i is the first position whose check does not pass.
firstFailure(c, i) ==
    ~elemPasses(c, i) /\ \A j \in 1..(i - 1) : elemPasses(c, j)

mismatchNote(c, i) ==
    [key |-> "error", text |-> <<"mismatch at ">> \o c.items[i].key]

\* C13 as stated: All visits the elements in index order up to the first
\* one whose check fails and no further, names that element in a
\* "mismatch at index N" note, and succeeds iff every element passes.
C13_Original ==
    (AllInvoked /\ inv.form = "c") =>
      LET c == inv.orig
      IN  /\ ok <=> (\A i \in positions(c) : elemPasses(c, i))
          /\ ok => calls.elems = keysUpTo(c, Len(c.items))
          /\ \A i \in positions(c) : firstFailure(c, i) =>
                /\ calls.elems = keysUpTo(c, i)
                /\ Len(ownBuf) = 1
                /\ \E k \in 1..Len(ownBuf[1].notes) :
                      ownBuf[1].notes[k] = mismatchNote(c, i)

\* C13: All over a slice visits the elements in index order up to the
\* first one whose check fails and no further, and succeeds iff every
\* element passes, so it succeeds on an empty slice.  The failure names
\* that element in a first note "mismatch at index N" and is silent,
\* unless the check of the element is a bad check: then All is the bad
\* check "at index N: ..." and carries no note.
C13_All ==
    AllInvoked =>
      LET c == inv.orig
      IN  /\ pc = "returned"
          /\ (origResult.err = Nil) <=> (\A i \in positions(c) : elemPasses(c, i))
          /\ origResult.err = Nil => calls.elems = keysUpTo(c, Len(c.items))
          /\ inv.form = "c" => (ok <=> (origResult.err = Nil))
          /\ \A i \in positions(c) : firstFailure(c, i) =>
                /\ calls.elems = keysUpTo(c, i)
                /\ IF elemBadCheck(c, i)
                   THEN /\ origResult.err = badCheckAt(c, i)
                        /\ origResult.notes = <<>>
                        /\ ~ok
                        /\ ownBuf[1].error = errorText(badCheckAt(c, i))
                        /\ ownBuf[1].notes = <<>>
                   ELSE /\ origResult.err = ErrSilent
                        /\ inv.form = "Not(c)" => ok
                        /\ inv.form = "c" =>
                              /\ Len(ownBuf) = 1
                              /\ ownBuf[1].error = <<>>
                              /\ ownBuf[1].notes[1] = mismatchNote(c, i)

\* The first of two elements fails: the second is not visited.
C13_Witness ==
    /\ AllInvoked
    /\ inv.form = "c"
    /\ Len(inv.orig.items) = 2
    /\ ~elemPasses(inv.orig, 1)
    /\ ~elemBadCheck(inv.orig, 1)
    /\ ~elemPasses(inv.orig, 2)
    /\ calls.elems = << <<"index ", "0">> >>
    /\ ~ok
    /\ ownBuf[1].notes[1] =
          [key |-> "error", text |-> <<"mismatch at ", "index ", "0">>]

\* The check of the first failing element is a bad check.
C13_WitnessBadCheck ==
    /\ AllInvoked
    /\ inv.form = "c"
    /\ Len(inv.orig.items) = 2
    /\ elemPasses(inv.orig, 1)
    /\ elemBadCheck(inv.orig, 2)
    /\ ~ok
    /\ ownBuf[1].notes = <<>>

C13_WitnessEmpty ==
    /\ AllInvoked
    /\ inv.form = "c"
    /\ inv.orig.items = <<>>
    /\ ok

----------------------------------------------------------------------------
(* Properties of CodecEquals and JSONEquals. *)

CodecInvoked == inv.entry # "none" /\ inv.orig.kind = "codecEqualChecker"

\* The expected value does not marshal, or its marshaled form does not
\* unmarshal.
expectedInvalid(c) ==
    LET w == codec_marshal(c.marshal, c.want)
    IN  ~w.ok \/ ~codec_unmarshal(c.unmarshal, w.val).ok

\* The actual payload does not unmarshal.
actualInvalid(c) == ~codec_unmarshal(c.unmarshal, c.got.v).ok

\* C14: a failure to marshal the expected value or to unmarshal its
\* marshaled form is a bad check, and the assertion fails, negated or not,
\* also when the actual payload is invalid too; a failure to unmarshal the
\* actual payload alone is a regular failure "cannot unmarshal obtained
\* contents", which negation turns into a pass.
C14_CodecErrors ==
    CodecInvoked =>
      LET c == inv.orig
      IN  /\ pc = "returned"
          /\ expectedInvalid(c) =>
                /\ IsBadCheck(origResult.err)
                /\ origResult.err.msg[1] =
                      (IF codec_marshal(c.marshal, c.want).ok
                       THEN "cannot unmarshal expected contents: "
                       ELSE "cannot marshal expected contents: ")
                /\ ~ok
                /\ Len(ownBuf) = 1
                /\ ownBuf[1].error[1] = "bad check: "
                /\ otherBuf = <<>>
          /\ (~expectedInvalid(c) /\ actualInvalid(c)) =>
                /\ origResult.err # Nil
                /\ ~IsBadCheck(origResult.err)
                /\ origResult.err # ErrSilent
                /\ origResult.err.msg[1] = "cannot unmarshal obtained contents: "
                /\ inv.form = "c" =>
                      (~ok /\ ownBuf[1].error = origResult.err.msg)
                /\ inv.form = "Not(c)" => ok

\* Both sides are invalid: the bad check of the expected side is reported.
C14_Witness ==
    /\ CodecInvoked
    /\ inv.form = "Not(c)"
    /\ expectedInvalid(inv.orig)
    /\ actualInvalid(inv.orig)
    /\ ~ok
    /\ Len(ownBuf) = 1
    /\ ownBuf[1].error[1] = "bad check: "

C14_WitnessActual ==
    /\ inv.orig = JSONEquals([typ |-> "[]uint8", v |-> <<"{\"NotThere\": ">>], GoNil)
    /\ inv.form = "c"
    /\ ~ok
    /\ ownBuf[1].error[1] = "cannot unmarshal obtained contents: "

C14_WitnessBadMarshal ==
    /\ CodecInvoked
    /\ inv.orig.marshal = "bad marshal"
    /\ ~ok
    /\ ownBuf[1].error[2] = "cannot unmarshal expected contents: "

----------------------------------------------------------------------------
(* Properties of ErrorIs and ErrorAs. *)

ErrorIsInvoked == inv.entry # "none" /\ inv.orig.kind = "errorIsChecker"

\* The errors reached from e by unwrapping it zero or more times.
chainOf(e) ==
    LET RECURSIVE unwrapped(_, _)
        unwrapped(x, n) == IF n = 0 THEN x ELSE unwrapped(errors_Unwrap(x), n - 1)
    IN  {unwrapped(e, n) : n \in 0..(chainLen(e) - 1)}

\* C15: ErrorIs fails with "got nil error but want non-nil" when got is
\* nil and want is not, succeeds when both are nil, and in every other case
\* succeeds iff want is one of the errors of got's chain.
C15_ErrorIs ==
    ErrorIsInvoked =>
      LET c == inv.orig
          r == origResult
      IN  /\ pc = "returned"
          /\ ~r.panicking
          /\ (c.got = GoNil /\ c.want # GoNil) =>
                /\ r.err = errors_New(<<"got nil error but want non-nil">>)
                /\ inv.form = "c" =>
                      (~ok /\ ownBuf[1].error = <<"got nil error but want non-nil">>)
                /\ inv.form = "Not(c)" => ok
          /\ (c.got = GoNil /\ c.want = GoNil) =>
                /\ r.err = Nil
                /\ inv.form = "c" => ok
          /\ c.got # GoNil =>
                /\ r.err = Nil <=> c.want \in chainOf(c.got)
                /\ inv.form = "c" => (ok <=> c.want \in chainOf(c.got))
                /\ inv.form = "Not(c)" => (ok <=> c.want \notin chainOf(c.got))

\* A nil subject against a non-nil target.
C15_Witness ==
    /\ ErrorIsInvoked
    /\ inv.form = "c"
    /\ inv.orig.got = GoNil
    /\ inv.orig.want = targetErr
    /\ ~ok
    /\ ownBuf[1].error = <<"got nil error but want non-nil">>

\* The target is found two levels down the chain.
C15_WitnessWrapped ==
    /\ ErrorIsInvoked
    /\ inv.form = "c"
    /\ inv.orig.got = WrapError("again: ", WrapError("wrapped: ", targetErr))
    /\ inv.orig.want = targetErr
    /\ ok

\* A non-nil subject against the nil target.
C15_WitnessNilWant ==
    /\ ErrorIsInvoked
    /\ inv.form = "c"
    /\ inv.orig.got = targetErr
    /\ inv.orig.want = GoNil
    /\ ~ok
    /\ ownBuf[1].error = <<"wanted error is not found in error chain">>

C15_WitnessBothNil ==
    /\ ErrorIsInvoked
    /\ inv.form = "c"
    /\ inv.orig.got = GoNil
    /\ inv.orig.want = GoNil
    /\ ok

ErrorAsInvoked == inv.entry # "none" /\ inv.orig.kind = "errorAsChecker"

\* The target is neither a pointer to an interface type nor a pointer to a
\* type implementing error.
invalidTarget(T) == T \notin {"any", "error"} /\ T \notin ErrorTypes

\* The assertion failed with the report of a bad check.
failsAsBadCheck ==
    /\ ~origResult.panicking
    /\ IsBadCheck(origResult.err)
    /\ pc = "returned"
    /\ ~ok
    /\ Len(ownBuf) = 1
    /\ ownBuf[1].error[1] = "bad check: "
    /\ otherBuf = <<>>

\* C16 as stated: an ErrorAs with an invalid target is a bad check for every
\* subject error, and fails in both forms.
C16_Original ==
    (ErrorAsInvoked /\ invalidTarget(inv.orig.T)) => failsAsBadCheck

\* C16: an ErrorAs with an invalid target is a bad check for every non-nil
\* subject error (the panic of the extraction is recovered), and fails in
\* both forms; for the nil subject error the check fails with "got nil
\* error but want non-nil" before the extraction, and its negation passes.
C16_ErrorAs ==
    (ErrorAsInvoked /\ invalidTarget(inv.orig.T)) =>
      IF inv.orig.got # GoNil
      THEN /\ failsAsBadCheck
           /\ ownBuf[1].error =
                 <<"bad check: ",
                   "errors: *target must be interface or implement error">>
           /\ ownBuf[1].args = <<>>
      ELSE /\ pc = "returned"
           /\ origResult.err = errors_New(<<"got nil error but want non-nil">>)
           /\ inv.form = "c" => ~ok
           /\ inv.form = "Not(c)" => ok

\* The negation of an ErrorAs with an invalid target and a wrapped subject.
C16_Witness ==
    /\ ErrorAsInvoked
    /\ inv.form = "Not(c)"
    /\ inv.orig.T = "struct {}"
    /\ inv.orig.got = WrapError("wrapped: ", targetErr)
    /\ ~ok
    /\ ownBuf[1].error[1] = "bad check: "

\* The negation of an ErrorAs with an invalid target and the nil subject.
C16_WitnessNil ==
    /\ ErrorAsInvoked
    /\ inv.form = "Not(c)"
    /\ inv.orig.T = "struct {}"
    /\ inv.orig.got = GoNil
    /\ ok

----------------------------------------------------------------------------
(* Properties of Equals on strings. *)

\* Equals was handed two unequal strings.
UnequalStrings ==
    /\ inv.entry # "none"
    /\ inv.orig.kind = "equalsChecker"
    /\ inv.orig.got.typ = "string"
    /\ inv.orig.want.typ = "string"
    /\ inv.orig.got.v # inv.orig.want.v

\* The string contains a newline that is not its last character.
multiLine(s) == \E i \in 1..(Len(s) - 1) : s[i] = "\n"

diffNotes(notes) ==
    {i \in 1..Len(notes) : notes[i].key = "line diff (-got +want)"}

\* C17 as stated: the line diff is attached only when both strings are
\* multi-line.
C17_Original ==
    UnequalStrings =>
      (diffNotes(origResult.notes) # {} =>
          (multiLine(inv.orig.got.v) /\ multiLine(inv.orig.want.v)))

\* C17: the line diff is attached, once, as the only note, when at least
\* one of the two strings is multi-line and the values are compared as
\* strings; in every other case no diff note is attached.  The failure
\* report carries the note.
C17_LineDiff ==
    UnequalStrings =>
      LET c == inv.orig
          r == origResult
          either == multiLine(c.got.v) \/ multiLine(c.want.v)
      IN  /\ pc = "returned"
          /\ r.err = errors_New(<<"values are not equal">>)
          /\ (c.T = "string" /\ either) =>
                /\ Len(r.notes) = 1
                /\ diffNotes(r.notes) = {1}
                /\ inv.form = "c" =>
                      (~ok /\ diffNotes(ownBuf[1].notes) = {1})
          /\ ~(c.T = "string" /\ either) => diffNotes(r.notes) = {}
          /\ (inv.form = "c" /\ ~(c.T = "string" /\ either)) =>
                (~ok /\ diffNotes(ownBuf[1].notes) = {})

\* Only the subject is multi-line, and the diff is in the report.
C17_Witness ==
    /\ UnequalStrings
    /\ inv.form = "c"
    /\ inv.orig.T = "string"
    /\ multiLine(inv.orig.got.v)
    /\ ~multiLine(inv.orig.want.v)
    /\ ~ok
    /\ diffNotes(ownBuf[1].notes) = {1}

\* Two strings ending with a newline: no diff.
C17_WitnessTrailing ==
    /\ UnequalStrings
    /\ inv.form = "c"
    /\ inv.orig.T = "string"
    /\ inv.orig.got.v = <<"a", "\n">>
    /\ inv.orig.want.v = <<"\n">>
    /\ ~ok
    /\ ownBuf[1].notes = <<>>

\* Two multi-line strings compared as interface values: no diff.
C17_WitnessAny ==
    /\ UnequalStrings
    /\ inv.form = "c"
    /\ inv.orig.T = "any"
    /\ multiLine(inv.orig.got.v)
    /\ multiLine(inv.orig.want.v)
    /\ ~ok
    /\ ownBuf[1].notes = <<>>

----------------------------------------------------------------------------
(* Properties of DeepEquals. *)

deepGot == IF TakesGot(inv.orig) THEN inv.got ELSE inv.orig.got

\* DeepEquals, of either API and without options, was handed two values
\* that are not deep-equal.
DeepMismatch ==
    /\ inv.entry # "none"
    /\ inv.orig.kind \in {"deepEqualsChecker", "cmpEqualsChecker"}
    /\ inv.orig.opts = "none"
    /\ inv.orig.want.typ = "[]any"
    /\ deepGot # inv.orig.want

keyIndexes(entries, key) == {i \in 1..Len(entries) : entries[i].key = key}

\* The report prints under the key the full rendering of the value, as a
\* note or as an argument.
shownInFull(rep, key, value) ==
    \/ \E i \in keyIndexes(rep.notes, key) : rep.notes[i].text = formatValue(value)
    \/ \E i \in keyIndexes(rep.args, key) : rep.args[i].text = formatValue(value)

\* The report has no entry under the key.
omitted(rep, key) ==
    keyIndexes(rep.notes, key) = {} /\ keyIndexes(rep.args, key) = {}

\* The check emitted the diff, and the report prints it.
diffAttached ==
    /\ Cardinality(keyIndexes(origResult.notes, "diff (-got +want)")) = 1
    /\ inv.form = "c" =>
          /\ pc = "returned"
          /\ ~ok
          /\ Len(ownBuf) = 1
          /\ Cardinality(keyIndexes(ownBuf[1].notes, "diff (-got +want)")) = 1

\* With the flag off the check is silent, and its first two notes are the
\* message and the diff.
silentWithMessage ==
    /\ origResult.err = ErrSilent
    /\ Len(origResult.notes) >= 2
    /\ origResult.notes[1] = note("error", Unquoted(<<"values are not deep equal">>))
    /\ origResult.notes[2].key = "diff (-got +want)"
    /\ inv.form = "c" =>
          /\ ownBuf[1].error = <<>>
          /\ ownBuf[1].notes[1] =
                [key |-> "error", text |-> <<"values are not deep equal">>]
          /\ ownBuf[1].args = <<>>

suppressedIfLong(rep, key, value) ==
    /\ Cardinality(keyIndexes(rep.notes, key)) = 1
    /\ \A i \in keyIndexes(rep.notes, key) :
          /\ \A j \in keyIndexes(rep.notes, "diff (-got +want)") : j < i
          /\ rep.notes[i].text =
                (IF lineCount(value) > longValueLines
                 THEN suppressed(lineCount(value))
                 ELSE formatValue(value))

C18_WitnessSuppressed ==
    /\ DeepMismatch
    /\ inv.orig.kind = "cmpEqualsChecker"
    /\ ~verbose
    /\ inv.form = "c"
    /\ lineCount(deepGot) > longValueLines
    /\ lineCount(inv.orig.want) <= longValueLines
    /\ ~ok
    /\ ownBuf[1].notes[3].text = suppressed(15)
    /\ ownBuf[1].notes[4].text = formatValue(inv.orig.want)

\* Flag on, subject passed to Check: the values are the arguments.
C18_WitnessVerbose ==
    /\ DeepMismatch
    /\ inv.orig.kind = "deepEqualsChecker"
    /\ verbose
    /\ inv.form = "c"
    /\ ~ok
    /\ ownBuf[1].error = <<"values are not deep equal">>
    /\ Len(ownBuf[1].args) = 2

\* Flag on, checker built from both values, a long got shown in full.
C18_WitnessVerboseLong ==
    /\ DeepMismatch
    /\ inv.orig.kind = "cmpEqualsChecker"
    /\ verbose
    /\ inv.form = "c"
    /\ lineCount(deepGot) > longValueLines
    /\ ownBuf[1].notes[3].text = formatValue(deepGot)

----------------------------------------------------------------------------
(* Properties of the report. *)

\* A failure was reported.
Reported == inv.entry # "none" /\ Len(ownBuf) = 1

rank(name) ==
    CASE name = "error" -> 1
      [] name = "comment" -> 2
      [] name = "note" -> 3
      [] name = "arg" -> 4
      [] name = "stack" -> 5

isNote(e) == e.section = "note"

isArg(e) == e.section = "arg"

\* The notes in the order in which the checker of the invocation emits them.
\* The sections and keys of entries, whatever the text written for them.
keysOf(entries) ==
    [i \in 1..Len(entries) |->
        [section |-> entries[i].section, key |-> entries[i].key]]

emitted ==
    IF inv.checker.kind = "nil" THEN <<>>
    ELSE [i \in 1..Len(inv.checker.addNotes) |->
            section("note", inv.checker.addNotes[i].key,
                    Format(inv.checker.addNotes[i].value))]

\* The arguments in the order in which the checker declares them, the
\* subject first.
declared ==
    LET c == inv.checker
    IN  IF c.kind = "testingChecker"
        THEN [i \in 1..Len(c.paramNames) |->
                section("arg", c.paramNames[i],
                        Format(IF i = 1 THEN inv.got ELSE c.args[i - 1]))]
        ELSE IF c.kind = "testingChecker2"
        THEN [i \in 1..Len(c.args) |->
                section("arg", c.args[i].Name, Format(c.args[i].Value))]
        ELSE <<>>

\* C19: every failure report lists its sections in the order error,
\* comment, notes, args, stack, with at most one error and one comment and
\* exactly one stack; the notes are those the checker emitted, in emission
\* order, and the args, when printed, those the checker declares, in
\* declared order, the subject first.
C19_ReportOrder ==
    Reported =>
      LET t == reportText(ownBuf[1])
      IN  /\ \A i, j \in 1..Len(t) :
                i < j => rank(t[i].section) <= rank(t[j].section)
          /\ Cardinality({i \in 1..Len(t) : t[i].section = "error"}) <= 1
          /\ Cardinality({i \in 1..Len(t) : t[i].section = "comment"}) <= 1
          /\ Cardinality({i \in 1..Len(t) : t[i].section = "stack"}) = 1
          /\ keysOf(SelectSeq(t, isNote)) = keysOf(emitted)
          /\ keysOf(SelectSeq(t, isArg)) \in {<<>>, keysOf(declared)}
          /\ (inv.checker.kind # "nil" /\ inv.checker.err.kind = "error") =>
                keysOf(SelectSeq(t, isArg)) = keysOf(declared)

\* A report with all five sections: two different notes, three arguments.
C19_Witness ==
    /\ Reported
    /\ inv.checker.kind = "testingChecker"
    /\ inv.checker.err = errors_New(<<"bad wolf">>)
    /\ Len(inv.checker.addNotes) = 2
    /\ inv.checker.addNotes[1].key = "note2"
    /\ inv.checker.addNotes[2].key = "note1"
    /\ Len(inv.checker.paramNames) = 3
    /\ Len(inv.comment) > 0
    /\ [i \in 1..Len(reportText(ownBuf[1])) |-> reportText(ownBuf[1])[i].key]
          = <<"error", "comment", "note2", "note1", "arg1", "arg2", "arg3",
              "stack">>

\* C20: when Check returns the silent error, the report has no error line
\* and no arg entry; after the comment, if any, it prints every note the
\* checker emitted, in emission order, and then the stack.
C20_Silent ==
    (inv.entry # "none" /\ inv.checker.kind # "nil"
        /\ origResult.err = ErrSilent) =>
      /\ pc = "returned"
      /\ ~ok
      /\ Len(ownBuf) = 1
      /\ otherBuf = <<>>
      /\ LET t == reportText(ownBuf[1])
             body == SelectSeq(t, LAMBDA e : e.section # "comment")
         IN  /\ \A i \in 1..Len(t) : t[i].section \notin {"error", "arg"}
             /\ keysOf(body) = keysOf(emitted) \o <<[section |-> "stack", key |-> "stack"]>>
             /\ \A i \in 1..Len(emitted) :
                   \/ body[i].text = emitted[i].text
                   \/ \E j \in 1..(i - 1) :
                         /\ emitted[j].text = emitted[i].text
                         /\ body[i].text = backReference(emitted[j].key)
             /\ Len(t) - Len(body) <= 1
             /\ Len(t) > Len(body) => t[1].section = "comment"

\* A silent failure of a checker with declared arguments and two notes.
C20_Witness ==
    /\ inv.entry # "none"
    /\ inv.checker.kind = "testingChecker2"
    /\ inv.checker.err = ErrSilent
    /\ Len(inv.checker.args) = 2
    /\ Len(inv.checker.addNotes) = 2
    /\ inv.checker.addNotes[1].key = "note2"
    /\ inv.checker.addNotes[2].key = "note1"
    /\ ~ok
    /\ [i \in 1..Len(reportText(ownBuf[1])) |-> reportText(ownBuf[1])[i].key]
          = <<"note2", "note1", "stack">>

----------------------------------------------------------------------------
(* Properties of the report of a bad check. *)

\* The notes the checker of the invocation emits before it returns a bad
\* check.
notesBeforeBadCheck ==
    LET c == inv.checker
    IN  IF c.kind \in {"testingChecker", "testingChecker2"} THEN c.addNotes
        ELSE <<note("panic value", StrVal(c.got.pval)),
               note("regexp", StrVal(c.want.src))>>

\* C21: when Check returns a bad-check error, the error line of the report
\* is "bad check: " followed by the message, the notes emitted before the
\* error are printed in order, and none of the checker's args is printed.
C21_BadCheckReport ==
    (inv.entry # "none" /\ inv.checker.kind # "nil"
        /\ IsBadCheck(origResult.err)) =>
      /\ pc = "returned"
      /\ ~ok
      /\ Len(ownBuf) = 1
      /\ otherBuf = <<>>
      /\ ownBuf[1].error = <<"bad check: ">> \o origResult.err.msg
      /\ ownBuf[1].notes =
            [i \in 1..Len(notesBeforeBadCheck) |->
                [key  |-> notesBeforeBadCheck[i].key,
                 text |-> Format(notesBeforeBadCheck[i].value)]]
      /\ ownBuf[1].args = <<>>
      /\ \A i \in 1..Len(reportText(ownBuf[1])) :
            reportText(ownBuf[1])[i].section # "arg"

\* The bad check of the tests: declared arguments, notes, no args printed.
C21_Witness ==
    /\ inv.entry # "none"
    /\ inv.checker.kind = "testingChecker2"
    /\ inv.checker.err = BadCheckf(<<"bad wolf">>)
    /\ Len(inv.checker.args) = 2
    /\ Len(inv.checker.addNotes) = 2
    /\ ~ok
    /\ ownBuf[1].error = <<"bad check: ", "bad wolf">>
    /\ Len(ownBuf[1].notes) = 2
    /\ ownBuf[1].args = <<>>

\* A pattern that does not compile, matched against a panic value.
C21_WitnessPattern ==
    /\ inv.entry # "none"
    /\ inv.checker.kind = "panicMatchesChecker"
    /\ inv.checker.got.panics
    /\ inv.checker.want.src = <<"(">>
    /\ ~ok
    /\ ownBuf[1].error[1] = "bad check: "
    /\ Len(ownBuf[1].notes) = 2
    /\ ownBuf[1].notes[1].key = "panic value"
    /\ ownBuf[1].args = <<>>

----------------------------------------------------------------------------
(* Properties of the back-references of a report. *)

\* The notes and the arguments of the invocation with their full rendering,
\* in the order in which the report prints them.
fullEntries == emitted \o declared

\* The notes and the arguments as the report prints them.
printedEntries ==
    SelectSeq(reportText(ownBuf[1]), LAMBDA e : e.section \in {"note", "arg"})

\* The entries before the i-th whose full rendering is that of the i-th.
earlierSame(i) ==
    {j \in 1..(i - 1) : fullEntries[j].text = fullEntries[i].text}

firstOf(S) == CHOOSE j \in S : \A k \in S : j <= k

\* C22: a note or arg whose rendered text equals that of an entry printed
\* earlier in the report is printed as <same as "NAME">, NAME being the
\* first entry printed with that text; the first occurrence of a text is
\* printed in full, and the entry a back-reference names is printed in full.
C22_BackReferences ==
    (Reported /\ inv.checker.kind \in {"testingChecker", "testingChecker2"}
        /\ inv.checker.err.kind = "error") =>
      /\ keysOf(printedEntries) = keysOf(fullEntries)
      /\ \A i \in 1..Len(fullEntries) :
            IF earlierSame(i) = {}
            THEN printedEntries[i].text = fullEntries[i].text
            ELSE LET j == firstOf(earlierSame(i))
                 IN  /\ printedEntries[i].text = backReference(fullEntries[j].key)
                     /\ printedEntries[j].text = fullEntries[j].text

\* A string noted first, an unquoted text rendering alike noted next, and
\* two arguments rendering alike again: three back-references to the first.
C22_Witness ==
    /\ Reported
    /\ inv.checker.kind = "testingChecker"
    /\ inv.got = StrVal(<<"value1">>)
    /\ [i \in 1..Len(printedEntries) |-> printedEntries[i].text]
          = << <<"\"", "value1", "\"">>, backReference("note1"),
               backReference("note1"), backReference("note1") >>

\* A value is noted twice after another: the back-reference names the
\* first of the two.
C22_WitnessArgs ==
    /\ Reported
    /\ inv.checker.kind = "testingChecker2"
    /\ [i \in 1..Len(printedEntries) |-> printedEntries[i].text]
          = << <<"nil">>, <<"int", "(", "42", ")">>, backReference("note2"),
               backReference("note1") >>

----------------------------------------------------------------------------
(* Properties of the comments of a report. *)

\* The non-empty comments given to the entry point, in the order given.
givenComments == SelectSeq(inv.comment, LAMBDA cm : cm # <<>>)

\* The comment entries of the report, in the order printed.
printedComments ==
    LET cs == SelectSeq(reportText(ownBuf[1]), LAMBDA e : e.section = "comment")
    IN  [i \in 1..Len(cs) |-> cs[i].text]

\* C23: every non-empty comment given to Assert or Check is printed as its
\* own comment entry, in the order given, after the error line and before
\* the notes; an empty comment produces no entry.
C23_Comments ==
    (Reported /\ inv.checker.kind # "nil") =>
      LET t == reportText(ownBuf[1])
      IN  /\ printedComments = givenComments
          /\ \A i, j \in 1..Len(t) :
                (t[i].section = "comment" /\ i < j) => t[j].section # "error"
          /\ \A i, j \in 1..Len(t) :
                (t[i].section = "comment" /\ j < i) => t[j].section # "note"

\* C23, for the entry points of src/quicktest.go: the first comment given,
\* and no other, is printed when it is not empty, after the error line and
\* before the notes.
C23_FirstComment ==
    (Reported /\ inv.checker.kind # "nil") =>
      LET t == reportText(ownBuf[1])
      IN  /\ printedComments =
                (IF inv.comment # <<>> /\ inv.comment[1] # <<>>
                 THEN <<inv.comment[1]>> ELSE <<>>)
          /\ \A i, j \in 1..Len(t) :
                (t[i].section = "comment" /\ i < j) => t[j].section # "error"
          /\ \A i, j \in 1..Len(t) :
                (t[i].section = "comment" /\ j < i) => t[j].section # "note"

\* Two comments were given and one is printed.
C23_Witness ==
    /\ Reported
    /\ inv.comment = << <<"bad wolf: 42">>, <<"second comment">> >>
    /\ inv.checker.err = errors_New(<<"bad wolf">>)
    /\ Len(inv.checker.addNotes) = 2
    /\ printedComments = << <<"bad wolf: 42">> >>

----------------------------------------------------------------------------
(* Properties of Patch. *)

\* C24: Patch sets the destination to the value at once and registers, as
\* the last cleanup, one that sets it back to the value it held just before
\* the call; once all cleanups have run, every patched destination holds
\* the value it had before its first Patch, however often it was patched.
C24_Patch ==
    /\ hist.last.op = "Patch" =>
          /\ mem[hist.last.dest] = hist.last.value
          /\ tb.cleanups # <<>>
          /\ tb.cleanups[Len(tb.cleanups)] =
                restore(hist.last.dest, hist.last.before)
    /\ tb.phase = "done" =>
          /\ tb.cleanups = <<>>
          /\ \A d \in Dests :
                hist.base[d].patched => mem[d] = hist.base[d].v

\* A destination was patched, the other was not, and all cleanups have run.
C24_Witness ==
    /\ tb.phase = "done"
    /\ hist.base["x"] = [patched |-> TRUE, v |-> 1]
    /\ ~hist.base["y"].patched
    /\ mem["x"] = 1
    /\ hist.last.op = "cleanup"

\* The destination holds the patched value while the test runs.
C24_WitnessPatched ==
    /\ tb.phase = "running"
    /\ hist.last.op = "Patch"
    /\ hist.base["x"] = [patched |-> TRUE, v |-> 1]
    /\ mem["x"] = 2
    /\ Len(tb.cleanups) = MaxPatches
    /\ \A i \in 1..Len(tb.cleanups) : tb.cleanups[i].dest = "x"

----------------------------------------------------------------------------
(* Properties of qtsuite.Run. *)

testCalls == {p \in 1..Len(sr.log) : isTestMethod(sr.log[p].Name)}

initCalls == {p \in 1..Len(sr.log) : ~isTestMethod(sr.log[p].Name)}

\* C25: given a pointer suite, every test method runs on a copy of its own
\* of the pointed-to value; Init, if defined, is called on that copy once
\* and just before the test method; neither the original value nor the
\* value another test sees is changed by what Init or a test assigns to the
\* field.
C25_SuiteCopies ==
    sr.at # "none" =>
      /\ sr.objs[1].init = sr.given
      /\ \A p \in testCalls :
            /\ sr.log[p].sv # 1
            /\ \A q \in testCalls : sr.log[q].sv = sr.log[p].sv => q = p
            /\ sr.log[p].Init = sr.given + (IF sr.hasInit THEN 1 ELSE 0)
            /\ sr.hasInit =>
                  /\ p - 1 \in initCalls
                  /\ sr.log[p - 1].sv = sr.log[p].sv
                  /\ sr.log[p - 1].Init = sr.given
            /\ Cardinality({q \in initCalls : sr.log[q].sv = sr.log[p].sv})
                  = (IF sr.hasInit THEN 1 ELSE 0)
      /\ \A q \in initCalls :
            q + 1 \in testCalls \/ (q = Len(sr.log) /\ sr.at = "test")
      /\ ~sr.hasInit => initCalls = {}

\* Run is over: Init and then the third test modified the field of the
\* third test's value, the fourth test ran after it and saw what Init alone
\* had made of the given value, and the original holds what it was given.
C25_Witness ==
    /\ sr.at = "loop"
    /\ sr.next > Len(sr.methods)
    /\ sr.hasInit
    /\ sr.given = 1
    /\ Cardinality(testCalls) = 4
    /\ Len(sr.log) = 8
    /\ sr.objs[1].init = 1
    /\ Len(sr.objs) = 5
    /\ sr.objs[4].init = 7
    /\ sr.log[8].Init = 2

----------------------------------------------------------------------------
(* Properties of the order in which the quantifiers work. *)

\* Whether the check of the i-th element decides Any: it passes or it is a
\* bad check.
decisive(c, i) == elemPasses(c, i) \/ elemBadCheck(c, i)

firstDecisive(c, i) ==
    decisive(c, i) /\ \A j \in 1..(i - 1) : ~decisive(c, j)

\* C26: Any checks the elements in iteration order up to the first one
\* whose check passes or is a bad check, and no further: it succeeds for
\* the former and is the bad check "at <key>: ..." for the latter, whatever
\* the later elements are; elements that merely fail are passed over, and
\* when no element decides every element has been checked.
C26_AnyStops ==
    AnyInvoked =>
      LET c == inv.orig
      IN  /\ \A i \in positions(c) : firstDecisive(c, i) =>
                /\ calls.elems = keysUpTo(c, i)
                /\ elemPasses(c, i) => origResult.err = Nil
                /\ elemBadCheck(c, i) => origResult.err = badCheckAt(c, i)
          /\ (\A i \in positions(c) : ~decisive(c, i)) =>
                /\ calls.elems = keysUpTo(c, Len(c.items))
                /\ origResult.err = errors_New(<<"no matching element found">>)

\* The first element is a bad check and the second would match: Any stops
\* at the first.
C26_Witness ==
    /\ AnyInvoked
    /\ Len(inv.orig.items) = 2
    /\ elemBadCheck(inv.orig, 1)
    /\ elemPasses(inv.orig, 2)
    /\ calls.elems = << <<"index ", "0">> >>
    /\ IsBadCheck(origResult.err)

\* The first element merely fails and the second is a bad check: Any goes
\* on to the second.
C26_WitnessSkip ==
    /\ AnyInvoked
    /\ Len(inv.orig.items) = 2
    /\ ~decisive(inv.orig, 1)
    /\ elemBadCheck(inv.orig, 2)
    /\ calls.elems = << <<"index ", "0">>, <<"index ", "1">> >>
    /\ origResult.err = badCheckAt(inv.orig, 2)

\* The first element matches and the second is a bad check: Any succeeds
\* and the second is never checked.
C26_WitnessMatch ==
    /\ AnyInvoked
    /\ Len(inv.orig.items) = 2
    /\ elemPasses(inv.orig, 1)
    /\ elemBadCheck(inv.orig, 2)
    /\ calls.elems = << <<"index ", "0">> >>
    /\ origResult.err = Nil

\* The notes the check of the i-th element emits.
elemNotes(c, i) ==
    Checker_Check(c.elemChecker[c.items[i].value], GoNil).notes

\* The notes All is said to emit at the i-th element.
mismatchNotes(c, i) ==
    <<note("error", Unquoted(<<"mismatch at ">> \o c.items[i].key))>>
    \o (IF elemVerdict(c, i) # ErrSilent
        THEN <<note("error", Unquoted(errorText(elemVerdict(c, i)))),
               note("first mismatched element", c.items[i].value)>>
        ELSE <<>>)
    \o elemNotes(c, i)

\* C27 as stated: at the first element whose check fails All emits the
\* note "mismatch at <key>", then, unless the error is the silent error, the
\* text of the error and the element, then the notes of that check, and
\* returns the silent error.
C27_Original ==
    AllInvoked =>
      \A i \in positions(inv.orig) : firstFailure(inv.orig, i) =>
          /\ origResult.err = ErrSilent
          /\ origResult.notes = mismatchNotes(inv.orig, i)

\* C27: at the first element whose check fails and is no bad check, All
\* emits the note "mismatch at <key>", then, unless the error is the silent
\* error, the text of the error and the element, then the notes of that
\* check in their order, and returns the silent error.  When the check is
\* a bad check All emits no note and returns the bad check "at <key>: ...".
\* No note of the check of an element that passed is emitted.
C27_AllNotes ==
    AllInvoked =>
      LET c == inv.orig
      IN  /\ \A i \in positions(c) : firstFailure(c, i) =>
                IF elemBadCheck(c, i)
                THEN /\ origResult.err = badCheckAt(c, i)
                     /\ origResult.notes = <<>>
                ELSE /\ origResult.err = ErrSilent
                     /\ origResult.notes = mismatchNotes(c, i)
          /\ \A j \in positions(c) : elemPasses(c, j) =>
                /\ elemNotes(c, j) # <<>>
                /\ \A k \in 1..Len(origResult.notes) :
                      origResult.notes[k].key # "matched"
          /\ origResult.err = Nil => origResult.notes = <<>>

\* The first element passes, with a note; the second fails with an error
\* and a note: All emits the four notes of the second.
C27_Witness ==
    /\ AllInvoked
    /\ Len(inv.orig.items) = 2
    /\ elemPasses(inv.orig, 1)
    /\ elemVerdict(inv.orig, 2) = errors_New(<<"values are not equal">>)
    /\ origResult.err = ErrSilent
    /\ Len(origResult.notes) = 4
    /\ origResult.notes[1] =
          note("error", Unquoted(<<"mismatch at ", "index ", "1">>))
    /\ origResult.notes[2] = note("error", Unquoted(<<"values are not equal">>))
    /\ origResult.notes[3].key = "first mismatched element"
    /\ origResult.notes[4].key = "got type"

\* The first element fails silently with two notes of its own.
C27_WitnessSilent ==
    /\ AllInvoked
    /\ Len(inv.orig.items) = 2
    /\ elemVerdict(inv.orig, 1) = ErrSilent
    /\ Len(origResult.notes) = 3
    /\ origResult.notes[2] =
          note("error", Unquoted(<<"values are not deep equal">>))
    /\ origResult.notes[3].key = "got"

----------------------------------------------------------------------------
(* Properties of invocations running side by side. *)

\* What the checker of the invocation g emits and returns.
resultOf(g) == Checker_Check(SharedCheckers[runs.inv[g].checker], GoNil)

\* What check hands to p.fail when it runs alone on the checker of g.
aloneFailed(g) ==
    check(checkParams("Error", SharedCheckers[runs.inv[g].checker],
                      GoNil, <<>>)).failed

\* C28: the notes an invocation has collected are at any time exactly the
\* notes its own Check has emitted so far, in their order, whatever other
\* invocations emit meanwhile or emitted earlier, on the same checker
\* instance or another; so its report is the one it makes running alone.
C28_OwnNotes ==
    \A g \in 1..MaxRuns :
        LET i == runs.inv[g]
        IN  /\ i.at = "checking" =>
                  runs.notes[i.rp] = SubSeq(resultOf(g).notes, 1, i.n)
            /\ i.at = "done" =>
                  /\ runs.notes[i.rp] = resultOf(g).notes
                  /\ i.failed = aloneFailed(g)
                  /\ \A k \in 1..Len(i.failed) :
                        /\ Len(i.failed[k].notes) = Len(resultOf(g).notes)
                        /\ \A j \in 1..Len(resultOf(g).notes) :
                              i.failed[k].notes[j].key
                                  = resultOf(g).notes[j].key

\* Two invocations on the same checker instance: the first has reported
\* its two notes, the second emitted a note while the first was checking
\* and has yet to emit its second.
C28_Witness ==
    /\ runs.inv[1].at = "done"
    /\ runs.inv[2].at = "checking"
    /\ runs.inv[1].checker = 1
    /\ runs.inv[2].checker = 1
    /\ runs.inv[1].others = 1
    /\ runs.inv[2].n = 1
    /\ Len(runs.inv[1].failed) = 1
    /\ Len(runs.inv[1].failed[1].notes) = 2

\* All, in two invocations at once, both over.
C28_WitnessAll ==
    /\ \A g \in 1..2 :
          /\ runs.inv[g].at = "done"
          /\ runs.inv[g].checker = 3
          /\ runs.inv[g].others = 1
          /\ Len(runs.inv[g].failed) = 1
          /\ Len(runs.inv[g].failed[1].notes) = 3

----------------------------------------------------------------------------
(* Properties of composed checkers. *)

NestInvoked ==
    /\ inv.entry # "none"
    /\ inv.orig.kind \in {"allChecker", "anyChecker"}
    /\ inv.orig.container.typ = "[][]int"

\* Whether Check of the quantifier q checks its i-th element.
visits(q, i) ==
    LET r == Checker_Check(q, GoNil)
    IN  \E k \in 1..Len(r.visited) : r.visited[k] = q.items[i].key

\* The quantifier q returns the bad check of every element it checks.
preserved(q) ==
    \A i \in positions(q) : (visits(q, i) /\ elemBadCheck(q, i)) =>
        Checker_Check(q, GoNil).err = badCheckAt(q, i)

\* The checker under a negation, or the checker itself.
negated(c) == IF c.kind = "notChecker" THEN c.Checker ELSE c

\* The checker the factory of q returns for its i-th element.
elemCheckerAt(q, i) == q.elemChecker[q.items[i].value]

\* Check of q reaches a bad check: it checks a row whose quantifier checks
\* an element that is a bad check.
reachesBadCheck(q) ==
    \E i \in positions(q) :
        /\ visits(q, i)
        /\ \E j \in positions(negated(elemCheckerAt(q, i))) :
              /\ visits(negated(elemCheckerAt(q, i)), j)
              /\ elemBadCheck(negated(elemCheckerAt(q, i)), j)

\* C29: All and Any return the bad check "at <key>: ..." when the check of
\* an element they check is a bad check, Not returns the bad check of its
\* checker, and so through the nesting of these: when the check of an
\* element of a row is reached and is a bad check, the composed checker is
\* a bad check and the assertion fails, negated or not.
C29_BadCheckPreserved ==
    NestInvoked =>
      LET c == inv.orig
      IN  /\ preserved(c)
          /\ \A i \in positions(c) :
                LET e == elemCheckerAt(c, i)
                IN  /\ preserved(negated(e))
                    /\ IsBadCheck(Checker_Check(negated(e), GoNil).err) =>
                          Checker_Check(e, GoNil).err
                              = Checker_Check(negated(e), GoNil).err
          /\ IsBadCheck(origResult.err) => notResult.err = origResult.err
          /\ reachesBadCheck(c) =>
                /\ IsBadCheck(origResult.err)
                /\ pc = "returned"
                /\ ~ok
                /\ Len(ownBuf) = 1
                /\ ownBuf[1].error = errorText(origResult.err)

\* Not(All(rows, Not(Any(row, f)))): the first row has no match, the
\* second row has a bad check after an element that fails.
C29_Witness ==
    /\ NestInvoked
    /\ inv.form = "Not(c)"
    /\ inv.orig.kind = "allChecker"
    /\ Len(inv.orig.items) = 2
    /\ elemCheckerAt(inv.orig, 2).kind = "notChecker"
    /\ negated(elemCheckerAt(inv.orig, 2)).kind = "anyChecker"
    /\ Len(negated(elemCheckerAt(inv.orig, 2)).items) = 2
    /\ elemPasses(inv.orig, 1)
    /\ visits(negated(elemCheckerAt(inv.orig, 2)), 2)
    /\ elemBadCheck(negated(elemCheckerAt(inv.orig, 2)), 2)
    /\ ~ok
    /\ ownBuf[1].error =
          <<"bad check: ", "at ", "index ", "1", ": ", "bad check: ",
            "at ", "index ", "1", ": ", "bad check: ", "bad wolf">>

\* Any(rows, All(row, f)): a row with a bad check is reached.
C29_WitnessAny ==
    /\ NestInvoked
    /\ inv.form = "c"
    /\ inv.orig.kind = "anyChecker"
    /\ reachesBadCheck(inv.orig)
    /\ ~ok

----------------------------------------------------------------------------
(* Properties of the quantifiers over maps. *)

MapInvoked ==
    /\ inv.entry # "none"
    /\ inv.orig.kind \in {"allChecker", "anyChecker"}
    /\ inv.orig.container.typ = "map[string]int"

\* The keys of the map of the quantifier c, and the value under a key.
keysOfMap(c) == DOMAIN c.container.v

valueAt(c, k) == IntVal(c.container.v[k])

\* What Check of the quantifier c returns when the map is visited in the
\* order p.
visitedIn(c, p) ==
    Checker_Check(
        [c EXCEPT !.items = newMapIter([k \in keysOfMap(c) |-> valueAt(c, k)], p)],
        GoNil)

\* The outcome kind of a result.
outcomeKind(r) ==
    IF r.err = Nil THEN "success"
    ELSE IF IsBadCheck(r.err) THEN "bad check" ELSE "check failure"

\* The verdict of value v under the factory of c.
verdictOf(c, v) == Checker_Check(c.elemChecker[v], GoNil).err

\* A result with the keys taken out of its error and its notes.
withoutKeys(c, r) ==
    LET strip(t) == SelectSeq(t, LAMBDA x : x \notin keysOfMap(c))
    IN  [err   |-> [r.err EXCEPT !.msg = strip(@)],
         notes |-> [i \in 1..Len(r.notes) |->
                      IF r.notes[i].value.typ = "Unquoted"
                      THEN [r.notes[i] EXCEPT !.value.v = strip(@)]
                      ELSE r.notes[i]]]

\* C30 as stated: whatever the order in which the values of the map are
\* visited, the outcome kind of All and of Any is the same, and two runs
\* differ in nothing but the key the failure names.
C30_Original ==
    MapInvoked =>
      \A p \in Orders(keysOfMap(inv.orig)) :
          /\ outcomeKind(visitedIn(inv.orig, p)) = outcomeKind(origResult)
          /\ withoutKeys(inv.orig, visitedIn(inv.orig, p))
                = withoutKeys(inv.orig, origResult)

\* Whether the outcome kind of the quantifier c depends on the order: the
\* check of a value is a bad check, and the check of another passes (Any),
\* or fails and is no bad check (All).
orderDecides(c) ==
    /\ \E k \in keysOfMap(c) : IsBadCheck(verdictOf(c, valueAt(c, k)))
    /\ \E k \in keysOfMap(c) :
          LET e == verdictOf(c, valueAt(c, k))
          IN  IF c.kind = "anyChecker" THEN e = Nil
              ELSE e # Nil /\ ~IsBadCheck(e)

\* C30: the outcome kind of All and of Any over a map, and with it the
\* verdict of the assertion and of its negation, does not depend on the
\* order in which the values are visited, unless the check of a value is a
\* bad check and the check of another passes (Any) or fails without being
\* a bad check (All): then the one visited first decides, and both kinds
\* occur.  Whether All succeeds never depends on the order.  The failure
\* of All names the key, the error, the value and the notes of the value
\* that failed first, and a bad check names the key and the bad check of
\* the value where it was met, so runs may differ in these.
C30_MapOrder ==
    MapInvoked =>
      LET c  == inv.orig
          Ps == Orders(keysOfMap(c))
      IN  /\ ~orderDecides(c) =>
                \A p \in Ps : outcomeKind(visitedIn(c, p)) = outcomeKind(origResult)
          /\ orderDecides(c) =>
                \E p, q \in Ps :
                    /\ outcomeKind(visitedIn(c, p)) = "bad check"
                    /\ outcomeKind(visitedIn(c, q)) # "bad check"
          /\ c.kind = "allChecker" =>
                \A p \in Ps : (visitedIn(c, p).err = Nil) <=> (origResult.err = Nil)
          /\ inv.form = "c" => (ok <=> outcomeKind(origResult) = "success")
          /\ inv.form = "Not(c)" =>
                (ok <=> outcomeKind(origResult) = "check failure")
          /\ \A i \in positions(c) :
                (c.kind = "allChecker" /\ firstFailure(c, i)) =>
                    /\ c.items[i].key
                          \in {<<"key ", "\"", k, "\"">> : k \in keysOfMap(c)}
                    /\ IF elemBadCheck(c, i)
                       THEN origResult.err = badCheckAt(c, i)
                       ELSE origResult.notes = mismatchNotes(c, i)
          /\ c.kind = "anyChecker" =>
                \/ origResult.err = Nil
                \/ origResult.err = errors_New(<<"no matching element found">>)
                \/ \E i \in positions(c) :
                      /\ elemBadCheck(c, i)
                      /\ origResult.err = badCheckAt(c, i)

\* Any over a map with a value that is a bad check and a value that
\* matches, the bad check visited first: the assertion fails, and would
\* pass in the other order.
C30_Witness ==
    /\ MapInvoked
    /\ inv.form = "c"
    /\ inv.orig.kind = "anyChecker"
    /\ keysOfMap(inv.orig) = {"a", "b"}
    /\ inv.orig.items[1].key = <<"key ", "\"", "b", "\"">>
    /\ elemBadCheck(inv.orig, 1)
    /\ elemPasses(inv.orig, 2)
    /\ ~ok
    /\ visitedIn(inv.orig, <<"a", "b">>).err = Nil

\* All over a map with two values that fail and no bad check: the runs in
\* both orders fail, each naming the key it visited first.
C30_WitnessAll ==
    /\ MapInvoked
    /\ inv.form = "c"
    /\ inv.orig.kind = "allChecker"
    /\ keysOfMap(inv.orig) = {"a", "b"}
    /\ ~orderDecides(inv.orig)
    /\ inv.orig.items[1].key = <<"key ", "\"", "b", "\"">>
    /\ ~elemPasses(inv.orig, 1)
    /\ ~elemPasses(inv.orig, 2)
    /\ ~ok
    /\ origResult.notes[1] =
          note("error", Unquoted(<<"mismatch at ", "key ", "\"", "b", "\"">>))
    /\ visitedIn(inv.orig, <<"a", "b">>).notes[1] =
          note("error", Unquoted(<<"mismatch at ", "key ", "\"", "a", "\"">>))

====
